---- MODULE Spec2Model ----
(***************************************************************************)
(* Model of src/src/edi271_parser.py: the EligibilityResponse record,      *)
(* SimpleEDI271Parser.parse_content, the single-pass fold over the         *)
(* '~'-separated segments of an EDI 271 text, the DatabaseManager with its *)
(* connection protocol and three statements, the parser's parse_file and   *)
(* query wrappers, and the command main().                                 *)
(*                                                                         *)
(* A Python str is modelled as a sequence of one-character strings, so     *)
(* that split, strip, upper, slicing, isdigit, float() and the currency    *)
(* format are computed character by character as the code computes them.   *)
(***************************************************************************)
EXTENDS Integers, Sequences, FiniteSets, TLC

VARIABLES data, pc, segments, idx, exc, calls, clock, returned,
          db_manager, connection_pool, database, dbop, dbres, wrapper, file, cli

\* the state of the persistence layer and of the callers around the parser
dbvars ==
    <<db_manager, connection_pool, database, dbop, dbres, wrapper, file, cli>>

vars == <<data, pc, segments, idx, exc, calls, clock, returned, dbvars>>

(***************************************************************************)
(* Bounds of the model.                                                    *)
(***************************************************************************)
\* segments per generated content string
MaxSegs == 2
\* parse_content calls made on one parser object
MaxCalls == 2
\* EligibilityResponse objects constructed (ticks of datetime.now())
MaxClock == 2
\* characters of a generated amount field
MaxAmountLen == 3
\* database transactions begun (ticks of the database's clock)
MaxOps == 4
\* rows the table holds
MaxRows == 2
\* characters of a generated date string
MaxDateLen == 4

(***************************************************************************)
(* str helpers                                                             *)
(***************************************************************************)
Empty == <<>>

Digit == {"0", "1", "2", "3", "4", "5", "6", "7", "8", "9"}

\* the whitespace str.strip() removes (the characters the inputs use)
Whitespace == {" ", "\n", "\t", "\r"}

RECURSIVE LStrip(_)
LStrip(s) ==
    IF s # Empty /\ Head(s) \in Whitespace THEN LStrip(Tail(s)) ELSE s

RECURSIVE RStrip(_)
RStrip(s) ==
    IF s # Empty /\ s[Len(s)] \in Whitespace
    THEN RStrip(SubSeq(s, 1, Len(s) - 1))
    ELSE s

\* str.strip()
Strip(s) == RStrip(LStrip(s))

\* str.split(sep) for a one-character sep: always at least one piece,
\* empty pieces kept ("a~b~".split("~") = ["a", "b", ""]).  The pieces lie
\* between consecutive occurrences of sep; SepAt gives the k-th occurrence,
\* with the ends of the string as occurrences 0 and n + 1.
SepAt(s, sep, k) ==
    LET at == {i \in 1..Len(s) : s[i] = sep} IN
    IF k = 0 THEN 0
    ELSE IF k > Cardinality(at) THEN Len(s) + 1
    ELSE CHOOSE i \in at : Cardinality({j \in at : j < i}) = k - 1

Split(s, sep) ==
    LET n == Cardinality({i \in 1..Len(s) : s[i] = sep}) IN
    [k \in 1..(n + 1) |->
        SubSeq(s, SepAt(s, sep, k - 1) + 1, SepAt(s, sep, k) - 1)]

\* sep.join(parts)
RECURSIVE Join(_, _)
Join(parts, sep) ==
    IF parts = <<>> THEN Empty
    ELSE IF Len(parts) = 1 THEN parts[1]
    ELSE parts[1] \o <<sep>> \o Join(Tail(parts), sep)

\* str.upper() on the ASCII letters
UpperChar(c) ==
    CASE c = "a" -> "A" [] c = "b" -> "B" [] c = "c" -> "C" [] c = "d" -> "D"
      [] c = "e" -> "E" [] c = "f" -> "F" [] c = "g" -> "G" [] c = "h" -> "H"
      [] c = "i" -> "I" [] c = "j" -> "J" [] c = "k" -> "K" [] c = "l" -> "L"
      [] c = "m" -> "M" [] c = "n" -> "N" [] c = "o" -> "O" [] c = "p" -> "P"
      [] c = "q" -> "Q" [] c = "r" -> "R" [] c = "s" -> "S" [] c = "t" -> "T"
      [] c = "u" -> "U" [] c = "v" -> "V" [] c = "w" -> "W" [] c = "x" -> "X"
      [] c = "y" -> "Y" [] c = "z" -> "Z" [] OTHER -> c

Upper(s) == [i \in 1..Len(s) |-> UpperChar(s[i])]

\* sub in s  (substring test)
Contains(sub, s) ==
    \E i \in 0..(Len(s) - Len(sub)) : SubSeq(s, i + 1, i + Len(sub)) = sub

\* s.replace(c, '') for a one-character c
RECURSIVE Remove(_, _)
Remove(s, c) ==
    IF s = Empty THEN Empty
    ELSE IF Head(s) = c THEN Remove(Tail(s), c)
    ELSE <<Head(s)>> \o Remove(Tail(s), c)

\* str.isdigit(): non-empty and every character a digit
IsDigit(s) == s # Empty /\ \A i \in 1..Len(s) : s[i] \in Digit

\* s[a:b] with 0 <= a <= b (Python slice: clipped to the string, never raises)
Slice(s, a, b) ==
    SubSeq(s, a + 1, IF b < Len(s) THEN b ELSE Len(s))

(***************************************************************************)
(* float(amount) and f"${float(amount):,.2f}"  (lines 312-313, 342-344)    *)
(*                                                                         *)
(* Only strings that pass the test of line 312 reach float(): they hold    *)
(* digits, '.' and '-' only.  On those float() accepts an optional leading *)
(* '-', then digits with at most one '.', with at least one digit, and     *)
(* raises ValueError on everything else ("1.2.3", "5-", "--5").            *)
(***************************************************************************)
CountOf(s, c) == Cardinality({i \in 1..Len(s) : s[i] = c})

Unsigned(s) == IF s # Empty /\ Head(s) = "-" THEN Tail(s) ELSE s

FloatParses(s) ==
    LET body == Unsigned(s) IN
    /\ \A i \in 1..Len(body) : body[i] \in Digit \cup {"."}
    /\ CountOf(body, ".") <= 1
    /\ \E i \in 1..Len(body) : body[i] \in Digit

DigitVal(c) ==
    CASE c = "0" -> 0 [] c = "1" -> 1 [] c = "2" -> 2 [] c = "3" -> 3
      [] c = "4" -> 4 [] c = "5" -> 5 [] c = "6" -> 6 [] c = "7" -> 7
      [] c = "8" -> 8 [] c = "9" -> 9

DigitChar(n) ==
    CASE n = 0 -> "0" [] n = 1 -> "1" [] n = 2 -> "2" [] n = 3 -> "3"
      [] n = 4 -> "4" [] n = 5 -> "5" [] n = 6 -> "6" [] n = 7 -> "7"
      [] n = 8 -> "8" [] n = 9 -> "9"

\* value of a string of decimal digits ("" is 0)
RECURSIVE ToNat(_)
ToNat(ds) ==
    IF ds = Empty THEN 0
    ELSE 10 * ToNat(SubSeq(ds, 1, Len(ds) - 1)) + DigitVal(ds[Len(ds)])

\* decimal digits of a natural number, no leading zeros ("0" for 0)
RECURSIVE NatToStr(_)
NatToStr(n) ==
    IF n < 10 THEN <<DigitChar(n)>>
    ELSE Append(NatToStr(n \div 10), DigitChar(n % 10))

\* the digits before and after the decimal point of an accepted literal
IntDigits(s) == Split(Unsigned(s), ".")[1]

FracDigits(s) ==
    LET parts == Split(Unsigned(s), ".") IN
    IF Len(parts) > 1 THEN parts[2] ELSE Empty

\* IEEE-754 double nearest to a / b (a, b > 0), compared with a / b itself:
\* the quotient is developed bit by bit to the 53 significant bits of a
\* double; rem is the remainder left after the last kept bit.
RECURSIVE BitLen(_)
BitLen(n) == IF n = 0 THEN 0 ELSE 1 + BitLen(n \div 2)

RECURSIVE FracBits(_, _, _)
FracBits(r, b, n) ==
    IF n = 0 \/ r = 0 THEN r ELSE FracBits((2 * r) % b, b, n - 1)

\* a / b < 1: skip the zero bits before the leading one bit
RECURSIVE LeadingBit(_, _)
LeadingBit(r, b) ==
    IF 2 * r >= b THEN 2 * r - b ELSE LeadingBit(2 * r, b)

DoubleRem(a, b) ==
    IF a \div b > 0
    THEN FracBits(a % b, b, 53 - BitLen(a \div b))
    ELSE FracBits(LeadingBit(a, b), b, 52)

\* float(a / b) is exactly a / b
DoubleExact(a, b) == DoubleRem(a, b) = 0

\* float(a / b) lies above a / b (the 53-bit mantissa was rounded up)
DoubleAbove(a, b) == 2 * DoubleRem(a, b) > b

\* round(|float(s)| * 100) as '.2f' rounds it: to the nearest cent of the
\* double's exact value, exact halves to the even cent
Cents(s) ==
    LET f      == FracDigits(s)
        kept   == ToNat(IntDigits(s)) * 100 + ToNat(Slice(f \o <<"0", "0">>, 0, 2))
        rest   == Slice(f, 2, Len(f))
        tail   == Slice(rest, 1, Len(rest))
        half   == rest # Empty /\ rest[1] = "5" /\ ToNat(tail) = 0
        up     == IF rest = Empty THEN FALSE
                  ELSE IF half
                       THEN IF DoubleExact(10 * kept + 5, 1000)
                            THEN kept % 2 = 1
                            ELSE DoubleAbove(10 * kept + 5, 1000)
                       ELSE DigitVal(rest[1]) >= 5
    IN  IF up THEN kept + 1 ELSE kept

\* the ',' option of the format: a comma before every group of three digits
RECURSIVE Group(_)
Group(ds) ==
    IF Len(ds) <= 3 THEN ds
    ELSE Group(SubSeq(ds, 1, Len(ds) - 3)) \o <<",">> \o SubSeq(ds, Len(ds) - 2, Len(ds))

TwoDigits(n) == <<DigitChar(n \div 10), DigitChar(n % 10)>>

\* The format without the ',' option: f"${float(amount):.2f}".
FormatAmountUngrouped(s) ==
    LET c == Cents(s) IN
    <<"$">> \o (IF s # Empty /\ Head(s) = "-" THEN <<"-">> ELSE Empty)
            \o NatToStr(c \div 100) \o <<".">> \o TwoDigits(c % 100)

\* f"${float(amount):,.2f}"; the sign of float() is kept, also on -0.0
FormatAmount(s) ==
    LET c == Cents(s) IN
    <<"$">> \o (IF s # Empty /\ Head(s) = "-" THEN <<"-">> ELSE Empty)
            \o Group(NatToStr(c \div 100)) \o <<".">> \o TwoDigits(c % 100)

(***************************************************************************)
(* The string literals of the code.                                        *)
(***************************************************************************)
LitST == <<"S", "T">>
LitBHT == <<"B", "H", "T">>
LitNM1 == <<"N", "M", "1">>
LitREF == <<"R", "E", "F">>
LitN3 == <<"N", "3">>
LitN4 == <<"N", "4">>
LitDMG == <<"D", "M", "G">>
LitEB == <<"E", "B">>
LitPR == <<"P", "R">>
LitP1 == <<"1", "P">>
LitIL == <<"I", "L">>
LitR18 == <<"1", "8">>
LitR6P == <<"6", "P">>
LitF == <<"F">>
LitFemale == <<"F", "e", "m", "a", "l", "e">>
LitMale == <<"M", "a", "l", "e">>
LitPLAN == <<"P", "L", "A", "N">>
LitIND == <<"I", "N", "D">>
LitP22 == <<"2", "2">>
LitP29 == <<"2", "9">>
LitA3 == <<"A", "3">>
LitB98 == <<"9", "8">>
LitPREVENTIVE == <<"P", "R", "E", "V", "E", "N", "T", "I", "V", "E">>
LitB == <<"B">>
LitC == <<"C">>
LitMH == <<"M", "H">>
LitNotSpecified == <<"N", "o", "t", " ", "s", "p", "e", "c", "i", "f", "i", "e", "d">>
LitYes == <<"Y", "e", "s">>
LitActive == <<"A", "c", "t", "i", "v", "e">>

(***************************************************************************)
(* EligibilityResponse (lines 24-48)                                       *)
(***************************************************************************)
Fields ==
    {"transaction_id", "response_date", "payer_name", "provider_name",
     "provider_npi", "subscriber_name", "member_id", "group_number",
     "employer", "address", "date_of_birth", "gender", "plan_name",
     "individual_deductible", "individual_deductible_met",
     "preventative_care_copay", "mental_health_covered", "status",
     "created_at"}

\* datetime.now().isoformat() at clock tick t: a non-empty timestamp string
IsoFormat(t) == <<"T">> \o NatToStr(t)

\* A record whose status default is the empty string like the other fields.
StatusBlankResponse(t) ==
    [f \in Fields |->
        CASE f = "mental_health_covered" -> LitNotSpecified
          [] f = "created_at" -> IsoFormat(t)
          [] OTHER -> Empty]

\* EligibilityResponse() constructed at clock tick t: the dataclass
\* defaults, then __post_init__ fills the empty created_at
EligibilityResponse(t) ==
    [f \in Fields |->
        CASE f = "mental_health_covered" -> LitNotSpecified
          [] f = "status" -> LitActive
          [] f = "created_at" -> IsoFormat(t)
          [] OTHER -> Empty]

(***************************************************************************)
(* parse_content, one loop iteration (lines 247-353).                      *)
(*                                                                         *)
(* A rule works on m = [d |-> self.data, exc |-> the exception raised so   *)
(* far, "none" for none].  elements[k] is El(e, k); Touch marks the places *)
(* where the code subscripts elements, so that a subscript past the end    *)
(* of the list raises IndexError as list.__getitem__ does.                 *)
(***************************************************************************)
OutOfRange == <<"<IndexError>">>

\* elements[k], k counted from 0 as in the code
El(e, k) == IF k < Len(e) THEN e[k + 1] ELSE OutOfRange

\* the subscripts elements[k], k \in ks, are evaluated
Touch(m, e, ks) ==
    IF m.exc = "none" /\ \E k \in ks : k >= Len(e)
    THEN [m EXCEPT !.exc = "IndexError"]
    ELSE m

\* self.data.<f> = v
Set(m, f, v) == IF m.exc = "none" THEN [m EXCEPT !.d[f] = v] ELSE m

\* raise ValueError (float() on a malformed literal)
Raise(m, kind) == IF m.exc = "none" THEN [m EXCEPT !.exc = kind] ELSE m

\* The date with day and month exchanged: DD/MM/YYYY.
FormatDateDayFirst(date_str) ==
    Slice(date_str, 6, 8) \o <<"/">> \o Slice(date_str, 4, 6) \o <<"/">>
        \o Slice(date_str, 0, 4)

\* f"{date_str[4:6]}/{date_str[6:8]}/{date_str[:4]}"  (lines 259, 301)
FormatDate(date_str) ==
    Slice(date_str, 4, 6) \o <<"/">> \o Slice(date_str, 6, 8) \o <<"/">>
        \o Slice(date_str, 0, 4)

\* The test of line 253 one field short: len(elements) > 1.
CaseSTShort(e) == El(e, 0) = LitST /\ Len(e) > 1

\* line 253
CaseST(e) == El(e, 0) = LitST /\ Len(e) > 2

\* line 254
DoST(e, m) == Set(Touch(m, e, {2}), "transaction_id", El(e, 2))

\* line 256
CaseBHT(e) == El(e, 0) = LitBHT /\ Len(e) > 4

\* lines 257-259
DoBHT(e, m) ==
    LET date_str == El(e, 4)
        m1 == Touch(m, e, {4})
    IN  IF Len(date_str) = 8
        THEN Set(m1, "response_date", FormatDate(date_str))
        ELSE m1

\* line 261
CaseNM1(e) == El(e, 0) = LitNM1

\* The subscriber with the middle name appended unconditionally.
DoNM1SubscriberAlwaysMiddle(e, m) ==
    LET m1 ==
            IF Len(e) > 4
            THEN Set(m, "subscriber_name",
                     El(e, 3) \o <<",", " ">> \o El(e, 4) \o <<" ">>
                         \o (IF Len(e) > 5 THEN El(e, 5) ELSE Empty))
            ELSE m
    IN  IF Len(e) > 9 THEN Set(m1, "member_id", El(e, 9)) ELSE m1

\* lines 270-279: the subscriber
DoNM1Subscriber(e, m) ==
    LET m1 ==
            IF Len(e) > 4
            THEN LET last   == IF Len(e) > 3 THEN El(e, 3) ELSE Empty
                     first  == IF Len(e) > 4 THEN El(e, 4) ELSE Empty
                     middle == IF Len(e) > 5 THEN El(e, 5) ELSE Empty
                     t  == Touch(m, e, (IF Len(e) > 3 THEN {3} ELSE {})
                                       \cup (IF Len(e) > 4 THEN {4} ELSE {})
                                       \cup (IF Len(e) > 5 THEN {5} ELSE {}))
                     name == last \o <<",", " ">> \o first
                 IN  IF middle # Empty
                     THEN Set(t, "subscriber_name", name \o <<" ">> \o middle)
                     ELSE Set(t, "subscriber_name", name)
            ELSE m
    IN  IF Len(e) > 9
        THEN Set(Touch(m1, e, {9}), "member_id", El(e, 9))
        ELSE m1

\* lines 262-279
DoNM1(e, m) ==
    IF Len(e) > 1
    THEN LET entity_type == El(e, 1)
             m1 == Touch(m, e, {1})
         IN  IF entity_type = LitPR /\ Len(e) > 3
             THEN Set(Touch(m1, e, {3}), "payer_name", El(e, 3))
             ELSE IF entity_type = LitP1 /\ Len(e) > 3
             THEN LET m2 == Set(Touch(m1, e, {3}), "provider_name", El(e, 3))
                  IN  IF Len(e) > 9
                      THEN Set(Touch(m2, e, {9}), "provider_npi", El(e, 9))
                      ELSE m2
             ELSE IF entity_type = LitIL
             THEN DoNM1Subscriber(e, m1)
             ELSE m1
    ELSE m

\* line 281
CaseREF(e) == El(e, 0) = LitREF /\ Len(e) > 2

\* lines 282-286
DoREF(e, m) ==
    LET ref_type == El(e, 1)
        m1 == Touch(m, e, {1})
    IN  IF ref_type = LitR18
        THEN Set(Touch(m1, e, {2}), "group_number", El(e, 2))
        ELSE IF ref_type = LitR6P
        THEN Set(Touch(m1, e, {2}), "employer", El(e, 2))
        ELSE m1

\* line 288
CaseN3(e) == El(e, 0) = LitN3 /\ Len(e) > 1

\* line 289
DoN3(e, m) == Set(Touch(m, e, {1}), "address", El(e, 1))

\* The test of line 291 without "and self.data.address".
CaseN4AnyAddress(e, d) == El(e, 0) = LitN4 /\ Len(e) > 3

\* line 291: the address must already be set
CaseN4(e, d) == El(e, 0) = LitN4 /\ Len(e) > 3 /\ d.address # Empty

\* lines 292-295
DoN4(e, m) ==
    LET city     == El(e, 1)
        state    == El(e, 2)
        zip_code == El(e, 3)
    IN  Set(Touch(m, e, {1, 2, 3}), "address",
            m.d.address \o <<",", " ">> \o city \o <<",", " ">> \o state
                        \o <<" ">> \o zip_code)

\* line 297
CaseDMG(e) == El(e, 0) = LitDMG

\* lines 298-303
DoDMG(e, m) ==
    LET m1 ==
            IF Len(e) > 2
            THEN LET date_str == El(e, 2)
                     t == Touch(m, e, {2})
                 IN  IF Len(date_str) = 8
                     THEN Set(t, "date_of_birth", FormatDate(date_str))
                     ELSE t
            ELSE m
    IN  IF Len(e) > 3
        THEN Set(Touch(m1, e, {3}), "gender",
                 IF El(e, 3) = LitF THEN LitFemale ELSE LitMale)
        ELSE m1

\* line 305
CaseEB(e) == El(e, 0) = LitEB

\* lines 306-307
EBPlan(e, m) ==
    IF Len(e) > 5 /\ Contains(LitPLAN, Upper(El(e, 5)))
    THEN Set(Touch(m, e, {5}), "plan_name", El(e, 5))
    ELSE m

\* lines 312, 342: amount and amount.replace('.', '').replace('-', '').isdigit()
LooksNumeric(amount) ==
    amount # Empty /\ IsDigit(Remove(Remove(amount, "."), "-"))

\* The deductible indicators without the "if not self.data..." tests: the
\* last matching segment wins.
EBDeductibleLastWins(e, m, formatted_amount) ==
    LET coverage_level == IF Len(e) > 2 THEN El(e, 2) ELSE Empty
        time_period    == IF Len(e) > 6 THEN El(e, 6) ELSE Empty
    IN  IF coverage_level = LitIND /\ time_period = LitP22
        THEN Set(m, "individual_deductible", formatted_amount)
        ELSE IF coverage_level = LitIND /\ time_period = LitP29
        THEN Set(m, "individual_deductible_met", formatted_amount)
        ELSE m

\* lines 315-316, 319-326: the deductible indicators, first value wins
EBDeductible(e, m, formatted_amount) ==
    LET coverage_level == IF Len(e) > 2 THEN El(e, 2) ELSE Empty
        time_period    == IF Len(e) > 6 THEN El(e, 6) ELSE Empty
        m1 == Touch(m, e, (IF Len(e) > 2 THEN {2} ELSE {})
                          \cup (IF Len(e) > 6 THEN {6} ELSE {}))
    IN  IF coverage_level = LitIND
        THEN IF time_period = LitP22
             THEN IF m1.d.individual_deductible = Empty
                  THEN Set(m1, "individual_deductible", formatted_amount)
                  ELSE m1
             ELSE IF time_period = LitP29
             THEN IF m1.d.individual_deductible_met = Empty
                  THEN Set(m1, "individual_deductible_met", formatted_amount)
                  ELSE m1
             ELSE m1
        ELSE m1

\* The co-pay indicators by benefit code alone, without the description.
EBCopayByCodeOnly(e, m, formatted_amount) ==
    LET benefit_info == IF Len(e) > 4 THEN El(e, 4) ELSE Empty
    IN  IF benefit_info \in {LitA3, LitB98}
           /\ m.d.preventative_care_copay = Empty
        THEN Set(m, "preventative_care_copay", formatted_amount)
        ELSE m

\* lines 317, 328-331: the co-pay indicators, first value wins.  The
\* condition of line 329 is (A or B) if len(elements) > 5 else False.
EBCopay(e, m, formatted_amount) ==
    LET benefit_info == IF Len(e) > 4 THEN El(e, 4) ELSE Empty
        m1 == Touch(m, e, IF Len(e) > 4 THEN {4} ELSE {})
        byCode == benefit_info \in {LitA3, LitB98}
        m2 == IF Len(e) > 5 /\ ~byCode THEN Touch(m1, e, {5}) ELSE m1
        indicated ==
            IF Len(e) > 5
            THEN byCode \/ Contains(LitPREVENTIVE, Upper(El(e, 5)))
            ELSE FALSE
    IN  IF indicated /\ m2.d.preventative_care_copay = Empty
        THEN Set(m2, "preventative_care_copay", formatted_amount)
        ELSE m2

\* lines 310-331: the financial amounts
EBAmounts(e, m) ==
    IF Len(e) > 7
    THEN LET amount == El(e, 7)
             m1 == Touch(m, e, {7})
         IN  IF LooksNumeric(amount)
             THEN IF FloatParses(amount)
                  THEN EBCopay(e, EBDeductible(e, m1, FormatAmount(amount)),
                               FormatAmount(amount))
                  ELSE Raise(m1, "ValueError")
             ELSE m1
    ELSE m

\* lines 333-344: the co-pay of benefit types B and C
EBCopayByType(e, m) ==
    IF Len(e) > 1
    THEN LET benefit_type == El(e, 1)
             m1 == Touch(m, e, {1})
         IN  IF benefit_type \in {LitB, LitC} /\ Len(e) > 4
             THEN LET benefit_info == IF Len(e) > 4 THEN El(e, 4) ELSE Empty
                      m2 == Touch(m1, e, IF Len(e) > 4 THEN {4} ELSE {})
                  IN  IF benefit_info \in {LitA3, LitB98} /\ Len(e) > 7
                      THEN LET amount == El(e, 7)
                               m3 == Touch(m2, e, {7})
                           IN  IF LooksNumeric(amount)
                               THEN IF m3.d.preventative_care_copay = Empty
                                    THEN IF FloatParses(amount)
                                         THEN Set(m3, "preventative_care_copay",
                                                  FormatAmount(amount))
                                         ELSE Raise(m3, "ValueError")
                                    ELSE m3
                               ELSE m3
                      ELSE m2
             ELSE m1
    ELSE m

\* x in list  (membership in the list split() returns)
InList(x, list) == \E i \in 1..Len(list) : list[i] = x

\* Mental health found by searching field[3] for the letters MH.
EBMentalHealthSubstring(e, m) ==
    IF Len(e) > 3 /\ Contains(LitMH, El(e, 3))
    THEN Set(m, "mental_health_covered", LitYes)
    ELSE m

\* lines 346-353: mental health among the benefit codes
EBMentalHealth(e, m) ==
    IF Len(e) > 3 /\ El(e, 3) # Empty
    THEN LET codes == El(e, 3)
             m1 == Touch(m, e, {3})
         IN  IF Contains(<<"^">>, codes)
             THEN IF InList(LitMH, Split(codes, "^"))
                  THEN Set(m1, "mental_health_covered", LitYes)
                  ELSE m1
             ELSE IF codes = LitMH
             THEN Set(m1, "mental_health_covered", LitYes)
             ELSE m1
    ELSE m

\* lines 305-353: the sub-rules of an EB segment, in the order of the code;
\* an exception ends the segment where it is raised
DoEB(e, m) ==
    EBMentalHealth(e, EBCopayByType(e, EBAmounts(e, EBPlan(e, m))))

\* lines 250-353: elements = segment.split('*') and the if / elif chain
ProcessSegment(segment, d) ==
    LET e == Split(segment, "*")
        m == [d |-> d, exc |-> "none"]
    IN  IF CaseST(e) THEN DoST(e, m)
        ELSE IF CaseBHT(e) THEN DoBHT(e, m)
        ELSE IF CaseNM1(e) THEN DoNM1(e, m)
        ELSE IF CaseREF(e) THEN DoREF(e, m)
        ELSE IF CaseN3(e) THEN DoN3(e, m)
        ELSE IF CaseN4(e, d) THEN DoN4(e, m)
        ELSE IF CaseDMG(e) THEN DoDMG(e, m)
        ELSE IF CaseEB(e) THEN DoEB(e, m)
        ELSE m

\* line 245: [seg.strip() for seg in content.split('~') if seg.strip()]
RECURSIVE NonEmptyStripped(_)
NonEmptyStripped(pieces) ==
    IF pieces = <<>> THEN <<>>
    ELSE (IF Strip(Head(pieces)) # Empty THEN <<Strip(Head(pieces))>> ELSE <<>>)
             \o NonEmptyStripped(Tail(pieces))

SplitSegments(content) == NonEmptyStripped(Split(content, "~"))

\* Python's None: a value no str of the model equals (a str is a sequence of
\* one-character strings)
None == <<"None">>

\* self.connection_pool of a new DatabaseManager (line 58): no pool yet, no
\* connection checked out, initialize_pool never run
NoPool == [state |-> "none", inits |-> 0, out |-> 0]

\* the table eligibility_responses (lines 94-116) with no row, its SERIAL
\* sequence and the database's clock
EmptyDatabase == [rows |-> <<>>, serial |-> 0, now |-> 0]

\* no DatabaseManager method is running
IdleOp ==
    [name |-> "none", args |-> <<>>, stage |-> "idle", kind |-> "none",
     value |-> <<>>, todo |-> <<>>, data_dict |-> <<>>, rolled_back |-> FALSE]

\* no DatabaseManager method has finished yet
NoResult == [kind |-> "none", value |-> <<>>, exc |-> "none"]

\* neither query wrapper of the parser is running
IdleWrapper ==
    [name |-> "none", args |-> <<>>, stage |-> "idle", kind |-> "none",
     value |-> <<>>, manager_calls |-> <<>>]

\* parse_file is not running
IdleFile ==
    [stage |-> "idle", save_to_db |-> FALSE, kind |-> "none",
     inserts |-> 0, insert_failed |-> FALSE]

\* main() is not running
IdleCli == [stage |-> "idle", args |-> <<>>, rc |-> <<>>, failed |-> FALSE]

\* the table with one record of member M1, stored by an earlier run
StoredDatabase ==
    [rows |-> <<[id |-> 1, created_at |-> 1, updated_at |-> 1,
                 cols |-> [c \in Fields \ {"created_at"} |->
                              IF c = "member_id" THEN <<"M", "1">>
                              ELSE IF c \in {"response_date", "date_of_birth"}
                              THEN None
                              ELSE EligibilityResponse(1)[c]]]>>,
     serial |-> 1, now |-> 1]

\* no call is in progress on any layer
Quiet ==
    /\ pc # "parsing"
    /\ dbop.stage = "idle"
    /\ wrapper.stage \in {"idle", "done"}
    /\ file.stage \in {"idle", "done"}
    /\ cli.stage \in {"idle", "done"}

(***************************************************************************)
(* The parser object and its calls.                                        *)
(*                                                                         *)
(*   data      self.data, the one EligibilityResponse the parser owns      *)
(*   pc        "ready" (constructed, never called), "parsing" (inside the  *)
(*             loop of parse_content), "returned", "raised"                *)
(*   segments  the list of line 245, a local of the call: empty outside it *)
(*   idx       number of segments the loop of the call has processed       *)
(*   exc       the exception the current call ended with, "none" if none   *)
(*   calls     parse_content calls made on this parser                     *)
(*   clock     datetime.now() at the latest construction                   *)
(*   returned  TRUE once a call on this parser has returned: line 355      *)
(*             returns self.data itself, so from then on the caller's      *)
(*             record and data are one object                              *)
(*   db_manager  whether the parser was given a DatabaseManager            *)
(*   connection_pool  the manager's pool: state "none" (line 58),           *)
(*             "open" or "closed", successful initialize_pool runs, and    *)
(*             connections handed out by getconn and not yet put back      *)
(*   database  the table's rows in insertion order, the last value of its  *)
(*             SERIAL sequence, and the database's clock                   *)
(*   dbop      the DatabaseManager method in progress and its position     *)
(*   dbres     how the latest DatabaseManager method ended                  *)
(*   wrapper   the query wrapper in progress, or how the latest one ended  *)
(*   file      the parse_file call in progress, or how the latest ended    *)
(*   cli       the run of main() in progress, or how the latest ended      *)
(***************************************************************************)
Init ==
    /\ clock = 1
    /\ data = EligibilityResponse(1)
    /\ pc = "ready"
    /\ segments = <<>>
    /\ idx = 0
    /\ exc = "none"
    /\ calls = 0
    /\ returned = FALSE
    /\ db_manager = FALSE
    /\ connection_pool = NoPool
    /\ database = EmptyDatabase
    /\ dbop = IdleOp
    /\ dbres = NoResult
    /\ wrapper = IdleWrapper
    /\ file = IdleFile
    /\ cli = IdleCli

\* SimpleEDI271Parser(db_manager)  (lines 225-228): a new parser with a new
\* record, given the DatabaseManager or None
NewParserWith(manager) ==
    /\ Quiet
    /\ clock < MaxClock
    /\ clock' = clock + 1
    /\ data' = EligibilityResponse(clock + 1)
    /\ pc' = "ready"
    /\ segments' = <<>>
    /\ idx' = 0
    /\ exc' = "none"
    /\ calls' = 0
    /\ returned' = FALSE
    /\ db_manager' = manager
    /\ UNCHANGED <<connection_pool, database, dbop, dbres, wrapper, file, cli>>

\* SimpleEDI271Parser(): a new parser without a database manager
NewParser == NewParserWith(FALSE)

\* parse_content(content) is called: line 245
StartParse(content) ==
    /\ Quiet
    /\ calls < MaxCalls
    /\ segments' = SplitSegments(content)
    /\ idx' = 0
    /\ pc' = "parsing"
    /\ exc' = "none"
    /\ calls' = calls + 1
    /\ UNCHANGED <<data, clock, returned, dbvars>>

\* the first parse_content call on a newly constructed parser
FirstParse(content) == calls = 0 /\ StartParse(content)

\* one iteration of the loop of line 247; an exception leaves the call,
\* and with the call its locals
Step ==
    /\ pc = "parsing"
    /\ idx < Len(segments)
    /\ LET r == ProcessSegment(segments[idx + 1], data) IN
           /\ data' = r.d
           /\ exc' = r.exc
           /\ IF r.exc = "none"
              THEN pc' = "parsing" /\ segments' = segments /\ idx' = idx + 1
              ELSE pc' = "raised" /\ segments' = <<>> /\ idx' = 0
    /\ UNCHANGED <<calls, clock, returned, dbvars>>

\* the loop has run over every segment: control is at line 355
LoopDone == pc = "parsing" /\ idx = Len(segments)

\* line 355: return self.data; the caller receives the parser's own record
Return ==
    /\ LoopDone
    /\ pc' = "returned"
    /\ segments' = <<>>
    /\ idx' = 0
    /\ returned' = TRUE
    /\ UNCHANGED <<data, exc, calls, clock, dbvars>>

(***************************************************************************)
(* Inputs.  A segment is written as its fields; Seg joins them with '*'.   *)
(* MakeContent writes a content string as an EDI file holds it: every      *)
(* segment terminated by '~', one segment per line.                        *)
(***************************************************************************)
Seg(fields) == Join(fields, "*")

RECURSIVE MakeContent(_)
MakeContent(segs) ==
    IF segs = <<>> THEN Empty
    ELSE IF Len(segs) = 1 THEN segs[1] \o <<"~">>
    ELSE segs[1] \o <<"~", "\n">> \o MakeContent(Tail(segs))

\* every content of at most MaxSegs segments drawn from pool
ContentsOf(pool) ==
    {MakeContent(ss) : ss \in UNION {[1..n -> pool] : n \in 0..MaxSegs}}

\* The segments of SAMPLE_EDI_271 (src/test/test_edi271_parser.py, 23-41).

\* ST*271*1234567890
Sample01 ==
    Seg(<<<<"S", "T">>, <<"2", "7", "1">>,
        <<"1", "2", "3", "4", "5", "6", "7", "8", "9", "0">>>>)

\* BHT*0022*11*1*20240801*1200
Sample02 ==
    Seg(<<<<"B", "H", "T">>, <<"0", "0", "2", "2">>, <<"1", "1">>, <<"1">>,
        <<"2", "0", "2", "4", "0", "8", "0", "1">>, <<"1", "2", "0", "0">>>>)

\* HL*1**20*1
Sample03 ==
    Seg(<<<<"H", "L">>, <<"1">>, <<>>, <<"2", "0">>, <<"1">>>>)

\* NM1*PR*2*BLUE CROSS BLUE SHIELD*****PI*12345
Sample04 ==
    Seg(<<<<"N", "M", "1">>, <<"P", "R">>, <<"2">>,
        <<"B", "L", "U", "E", " ", "C", "R", "O", "S", "S", " ", "B", "L", "U", "E", " ", "S", "H", "I", "E", "L", "D">>,
        <<>>, <<>>, <<>>, <<>>, <<"P", "I">>, <<"1", "2", "3", "4", "5">>>>)

\* HL*2*1*21*1
Sample05 ==
    Seg(<<<<"H", "L">>, <<"2">>, <<"1">>, <<"2", "1">>, <<"1">>>>)

\* NM1*1P*2*PROVIDER NAME*****XX*1234567890
Sample06 ==
    Seg(<<<<"N", "M", "1">>, <<"1", "P">>, <<"2">>,
        <<"P", "R", "O", "V", "I", "D", "E", "R", " ", "N", "A", "M", "E">>,
        <<>>, <<>>, <<>>, <<>>, <<"X", "X">>,
        <<"1", "2", "3", "4", "5", "6", "7", "8", "9", "0">>>>)

\* HL*3*2*22*0
Sample07 ==
    Seg(<<<<"H", "L">>, <<"3">>, <<"2">>, <<"2", "2">>, <<"0">>>>)

\* TRN*2*1234567890*1234567890
Sample08 ==
    Seg(<<<<"T", "R", "N">>, <<"2">>,
        <<"1", "2", "3", "4", "5", "6", "7", "8", "9", "0">>,
        <<"1", "2", "3", "4", "5", "6", "7", "8", "9", "0">>>>)

\* NM1*IL*1*DOE*JOHN*M***MI*123456789
Sample09 ==
    Seg(<<<<"N", "M", "1">>, <<"I", "L">>, <<"1">>, <<"D", "O", "E">>,
        <<"J", "O", "H", "N">>, <<"M">>, <<>>, <<>>, <<"M", "I">>,
        <<"1", "2", "3", "4", "5", "6", "7", "8", "9">>>>)

\* REF*18*GRP12345
Sample10 ==
    Seg(<<<<"R", "E", "F">>, <<"1", "8">>,
        <<"G", "R", "P", "1", "2", "3", "4", "5">>>>)

\* REF*6P*ACME CORP
Sample11 ==
    Seg(<<<<"R", "E", "F">>, <<"6", "P">>,
        <<"A", "C", "M", "E", " ", "C", "O", "R", "P">>>>)

\* N3*123 MAIN ST
Sample12 ==
    Seg(<<<<"N", "3">>,
        <<"1", "2", "3", " ", "M", "A", "I", "N", " ", "S", "T">>>>)

\* N4*ANYTOWN*CA*90210
Sample13 ==
    Seg(<<<<"N", "4">>, <<"A", "N", "Y", "T", "O", "W", "N">>, <<"C", "A">>,
        <<"9", "0", "2", "1", "0">>>>)

\* DMG*D8*19900101*M
Sample14 ==
    Seg(<<<<"D", "M", "G">>, <<"D", "8">>,
        <<"1", "9", "9", "0", "0", "1", "0", "1">>, <<"M">>>>)

\* DTP*346*D8*20240801
Sample15 ==
    Seg(<<<<"D", "T", "P">>, <<"3", "4", "6">>, <<"D", "8">>,
        <<"2", "0", "2", "4", "0", "8", "0", "1">>>>)

\* EB*1*IND**30*MEDICAL PLAN*22*2500.00
Sample16 ==
    Seg(<<<<"E", "B">>, <<"1">>, <<"I", "N", "D">>, <<>>, <<"3", "0">>,
        <<"M", "E", "D", "I", "C", "A", "L", " ", "P", "L", "A", "N">>,
        <<"2", "2">>, <<"2", "5", "0", "0", ".", "0", "0">>>>)

\* EB*1*IND**30*MEDICAL PLAN*29*500.00
Sample17 ==
    Seg(<<<<"E", "B">>, <<"1">>, <<"I", "N", "D">>, <<>>, <<"3", "0">>,
        <<"M", "E", "D", "I", "C", "A", "L", " ", "P", "L", "A", "N">>,
        <<"2", "9">>, <<"5", "0", "0", ".", "0", "0">>>>)

\* EB*B*IND**A3*PREVENTIVE CARE*23*25.00
Sample18 ==
    Seg(<<<<"E", "B">>, <<"B">>, <<"I", "N", "D">>, <<>>, <<"A", "3">>,
        <<"P", "R", "E", "V", "E", "N", "T", "I", "V", "E", " ", "C", "A", "R", "E">>,
        <<"2", "3">>, <<"2", "5", ".", "0", "0">>>>)

\* SE*20*1234567890
Sample19 ==
    Seg(<<<<"S", "E">>, <<"2", "0">>,
        <<"1", "2", "3", "4", "5", "6", "7", "8", "9", "0">>>>)

SampleSegments ==
    <<Sample01, Sample02, Sample03, Sample04, Sample05, Sample06,
      Sample07, Sample08, Sample09, Sample10, Sample11, Sample12,
      Sample13, Sample14, Sample15, Sample16, Sample17, Sample18,
      Sample19>>

SampleContent == MakeContent(SampleSegments)

\* Deductible segments: two amounts for each deductible field, an amount that
\* is no number, a coverage level other than IND, a malformed number.

\* EB*1*IND**30*MEDICAL PLAN*22*2500.00
Deduct1 ==
    Seg(<<<<"E", "B">>, <<"1">>, <<"I", "N", "D">>, <<>>, <<"3", "0">>,
        <<"M", "E", "D", "I", "C", "A", "L", " ", "P", "L", "A", "N">>,
        <<"2", "2">>, <<"2", "5", "0", "0", ".", "0", "0">>>>)

\* EB*1*IND**30*MEDICAL PLAN*22*100
Deduct2 ==
    Seg(<<<<"E", "B">>, <<"1">>, <<"I", "N", "D">>, <<>>, <<"3", "0">>,
        <<"M", "E", "D", "I", "C", "A", "L", " ", "P", "L", "A", "N">>,
        <<"2", "2">>, <<"1", "0", "0">>>>)

\* EB*1*IND**30*MEDICAL PLAN*29*500.00
Deduct3 ==
    Seg(<<<<"E", "B">>, <<"1">>, <<"I", "N", "D">>, <<>>, <<"3", "0">>,
        <<"M", "E", "D", "I", "C", "A", "L", " ", "P", "L", "A", "N">>,
        <<"2", "9">>, <<"5", "0", "0", ".", "0", "0">>>>)

\* EB*1*IND**30*MEDICAL PLAN*29*7.5
Deduct4 ==
    Seg(<<<<"E", "B">>, <<"1">>, <<"I", "N", "D">>, <<>>, <<"3", "0">>,
        <<"M", "E", "D", "I", "C", "A", "L", " ", "P", "L", "A", "N">>,
        <<"2", "9">>, <<"7", ".", "5">>>>)

\* EB*1*IND**30*MEDICAL PLAN*22*N/A
Deduct5 ==
    Seg(<<<<"E", "B">>, <<"1">>, <<"I", "N", "D">>, <<>>, <<"3", "0">>,
        <<"M", "E", "D", "I", "C", "A", "L", " ", "P", "L", "A", "N">>,
        <<"2", "2">>, <<"N", "/", "A">>>>)

\* EB*1*FAM**30*MEDICAL PLAN*22*9000
Deduct6 ==
    Seg(<<<<"E", "B">>, <<"1">>, <<"F", "A", "M">>, <<>>, <<"3", "0">>,
        <<"M", "E", "D", "I", "C", "A", "L", " ", "P", "L", "A", "N">>,
        <<"2", "2">>, <<"9", "0", "0", "0">>>>)

\* EB*1*IND**30*MEDICAL PLAN*22*1.2.3
Deduct7 ==
    Seg(<<<<"E", "B">>, <<"1">>, <<"I", "N", "D">>, <<>>, <<"3", "0">>,
        <<"M", "E", "D", "I", "C", "A", "L", " ", "P", "L", "A", "N">>,
        <<"2", "2">>, <<"1", ".", "2", ".", "3">>>>)

DeductPool ==
    {Deduct1, Deduct2, Deduct3, Deduct4, Deduct5, Deduct6, Deduct7}

(***************************************************************************)
(* Spec: parsers are constructed and parse_content is called, also         *)
(* repeatedly on the same parser, on contents of deductible segments.      *)
(***************************************************************************)
Next ==
    \/ NewParser
    \/ \E content \in ContentsOf(DeductPool) : StartParse(content)
    \/ Step
    \/ Return

Spec == Init /\ [][Next]_vars

(***************************************************************************)
(* Vocabulary of the properties.                                           *)
(***************************************************************************)
\* the fields of the i-th segment of the current call
Elems(i) == Split(segments[i], "*")

\* control is inside the first call made on its parser
FreshCall == pc = "parsing" /\ calls = 1

\* a numeric amount as the specification words it: digits, at most one
\* decimal point, an optional leading minus sign
NumericAmount(s) ==
    LET body == IF s # Empty /\ s[1] = "-" THEN SubSeq(s, 2, Len(s)) ELSE s IN
    /\ Cardinality({i \in 1..Len(body) : body[i] = "."}) <= 1
    /\ \A i \in 1..Len(body) : body[i] = "." \/ body[i] \in Digit
    /\ \E i \in 1..Len(body) : body[i] \in Digit

(***************************************************************************)
(* C10  The record of a newly constructed parser.                          *)
(***************************************************************************)
\* a parser has been constructed and parse_content not yet called on it
Fresh == pc = "ready"

\* C10 as stated: a freshly constructed EligibilityResponse has every field
\* equal to the empty string except status, which is 'Active', and
\* created_at, which is non-empty.
C10_AllEmptyExceptStatus ==
    Fresh =>
        /\ \A f \in Fields \ {"status", "created_at"} : data[f] = Empty
        /\ data.status = LitActive
        /\ data.created_at # Empty

\* C10 amended: a freshly constructed EligibilityResponse has every field
\* equal to the empty string except status, which is 'Active',
\* mental_health_covered, which is 'Not specified', and created_at, which is
\* non-empty.
C10_FreshDefaults ==
    Fresh =>
        /\ \A f \in Fields \ {"status", "created_at", "mental_health_covered"} :
               data[f] = Empty
        /\ data.status = LitActive
        /\ data.mental_health_covered = LitNotSpecified
        /\ data.created_at # Empty

\* a parser constructed after another one had parsed
C10_Witness == Fresh /\ clock > 1 /\ data.status = LitActive

(***************************************************************************)
(* C5  First value wins for the two deductible fields.                     *)
(***************************************************************************)
\* segment i of the current call is an EB segment for the individual
\* deductible of period code p with an amount that is a number
DeductibleMatch(i, p) ==
    LET e == Elems(i) IN
    /\ Len(e) > 7
    /\ e[1] = LitEB
    /\ e[3] = LitIND
    /\ e[7] = p
    /\ NumericAmount(e[8])

\* the formatted amount of the first segment matching p, empty if none does
FirstDeductible(p) ==
    LET hits == {i \in 1..Len(segments) : DeductibleMatch(i, p)} IN
    IF hits = {} THEN Empty
    ELSE FormatAmount(Elems(CHOOSE i \in hits : \A j \in hits : i <= j)[8])

\* C5, during a parse: once individual_deductible or
\* individual_deductible_met is set, no later segment changes it.
C5_KeptOnceSet ==
    pc = "parsing" =>
        /\ data.individual_deductible # Empty =>
               data'.individual_deductible = data.individual_deductible
        /\ data.individual_deductible_met # Empty =>
               data'.individual_deductible_met = data.individual_deductible_met

\* C5, where the first parse of a parser returns: each deductible field
\* holds the formatted amount of the first EB segment matching it.
C5_FirstAtReturn ==
    LoopDone /\ FreshCall =>
        /\ data.individual_deductible = FirstDeductible(LitP22)
        /\ data.individual_deductible_met = FirstDeductible(LitP29)

\* C5: first-wins for the deductibles (both parts above).
C5_FirstWins == [][C5_KeptOnceSet]_vars /\ []C5_FirstAtReturn

\* two segments match individual_deductible and the first one's amount stands
C5_Witness ==
    /\ LoopDone
    /\ FreshCall
    /\ segments = <<Deduct1, Deduct2>>
    /\ data.individual_deductible = <<"$", "2", ",", "5", "0", "0", ".", "0", "0">>

(***************************************************************************)
(* SpecIdent: first parses of the sample content and of contents made of   *)
(* identifier segments (ST, NM1, REF).                                     *)
(***************************************************************************)

\* NM1*IL*1*ROE*JANE****MI*42
Ident1 ==
    Seg(<<<<"N", "M", "1">>, <<"I", "L">>, <<"1">>, <<"R", "O", "E">>,
        <<"J", "A", "N", "E">>, <<>>, <<>>, <<>>, <<"M", "I">>,
        <<"4", "2">>>>)

\* NM1*1P*2*CLINIC
Ident2 ==
    Seg(<<<<"N", "M", "1">>, <<"1", "P">>, <<"2">>,
        <<"C", "L", "I", "N", "I", "C">>>>)

\* NM1*IL*1*POE*ANN
Ident3 ==
    Seg(<<<<"N", "M", "1">>, <<"I", "L">>, <<"1">>, <<"P", "O", "E">>,
        <<"A", "N", "N">>>>)

IdentPool ==
    {Sample01, Sample04, Sample06, Sample09, Sample10, Sample11, Ident1,
     Ident2, Ident3}

NextIdent ==
    \/ NewParser
    \/ \E content \in {SampleContent} \cup ContentsOf(IdentPool) :
           FirstParse(content)
    \/ Step
    \/ Return

SpecIdent == Init /\ [][NextIdent]_vars

(***************************************************************************)
(* C1  Identifier segments are mapped positionally onto the record.        *)
(***************************************************************************)
\* 'LAST, FIRST', and ' MIDDLE' after it only when field[5] is non-empty
SubscriberName(e) ==
    e[4] \o <<",", " ">> \o e[5]
         \o (IF Len(e) > 5 /\ e[6] # Empty THEN <<" ">> \o e[6] ELSE Empty)

\* the record d holds what the claim says of a segment with fields e
\* (e[k + 1] is field[k])
IdentMapped(e, d) ==
    /\ e[1] = LitST /\ Len(e) > 2 => d.transaction_id = e[3]
    /\ e[1] = LitNM1 /\ Len(e) > 3 /\ e[2] = LitPR => d.payer_name = e[4]
    /\ e[1] = LitNM1 /\ Len(e) > 3 /\ e[2] = LitP1 => d.provider_name = e[4]
    /\ e[1] = LitNM1 /\ Len(e) > 9 /\ e[2] = LitP1 => d.provider_npi = e[10]
    /\ e[1] = LitNM1 /\ Len(e) > 4 /\ e[2] = LitIL =>
           d.subscriber_name = SubscriberName(e)
    /\ e[1] = LitNM1 /\ Len(e) > 9 /\ e[2] = LitIL => d.member_id = e[10]
    /\ e[1] = LitREF /\ Len(e) > 2 /\ e[2] = LitR18 => d.group_number = e[3]
    /\ e[1] = LitREF /\ Len(e) > 2 /\ e[2] = LitR6P => d.employer = e[3]

\* the identifiers the test expects of the sample content
SampleIdentifiers ==
    /\ data.transaction_id = <<"1", "2", "3", "4", "5", "6", "7", "8", "9", "0">>
    /\ data.payer_name =
           <<"B", "L", "U", "E", " ", "C", "R", "O", "S", "S", " ", "B", "L", "U", "E", " ", "S", "H", "I", "E", "L", "D">>
    /\ data.provider_name = <<"P", "R", "O", "V", "I", "D", "E", "R", " ", "N", "A", "M", "E">>
    /\ data.provider_npi = <<"1", "2", "3", "4", "5", "6", "7", "8", "9", "0">>
    /\ data.subscriber_name = <<"D", "O", "E", ",", " ", "J", "O", "H", "N", " ", "M">>
    /\ data.member_id = <<"1", "2", "3", "4", "5", "6", "7", "8", "9">>
    /\ data.group_number = <<"G", "R", "P", "1", "2", "3", "4", "5">>

\* C1: on a fresh parser, after each identifier segment the record holds the
\* fields of that segment at the stated positions (ST field[2]; NM1 PR
\* field[3]; NM1 1P field[3] and field[9]; NM1 IL 'LAST, FIRST[ MIDDLE]' and
\* field[9]; REF 18 and REF 6P field[2]), and the sample content returns the
\* identifiers of the test.
C1_IdentifiersMapped ==
    /\ idx > 0 /\ exc = "none" => IdentMapped(Elems(idx), data)
    /\ LoopDone /\ segments = SampleSegments => SampleIdentifiers

\* the sample content has been parsed to its end
C1_Witness ==
    /\ LoopDone
    /\ segments = SampleSegments
    /\ data.subscriber_name = <<"D", "O", "E", ",", " ", "J", "O", "H", "N", " ", "M">>
    /\ data.member_id = <<"1", "2", "3", "4", "5", "6", "7", "8", "9">>

(***************************************************************************)
(* SpecAmount: first parses of one EB segment whose amount field[7] is any *)
(* string of at most MaxAmountLen characters over AmountChars, or one of a *)
(* few longer amounts (thousands, halves of a cent, several points).       *)
(***************************************************************************)
AmountChars == {"1", "5", ".", "-", "N"}

LongAmounts ==
    {<<"2", "5", "0", "0", ".", "0", "0">>,
     <<"1", "2", "3", "4", "5", "6", "7", ".", "5">>,
     <<"-", "1", "0", "0", "0">>,
     <<"2", ".", "6", "7", "5">>,
     <<"9", "9", "9", ".", "9", "9", "5">>,
     <<"1", ".", "2", ".", "3">>}

Amounts ==
    UNION {[1..n -> AmountChars] : n \in 0..MaxAmountLen} \cup LongAmounts

\* EB*B*IND**A3*MEDICAL PLAN*<period>*<amount>: an individual deductible of
\* the period and, by its code A3, a preventative-care co-pay
AmountSeg(period, amount) ==
    Seg(<<LitEB, LitB, LitIND, Empty, LitA3,
          <<"M", "E", "D", "I", "C", "A", "L", " ", "P", "L", "A", "N">>,
          period, amount>>)

AmountContents ==
    {MakeContent(<<AmountSeg(period, amount)>>) :
        period \in {LitP22, LitP29}, amount \in Amounts}

NextAmount ==
    \/ NewParser
    \/ \E content \in AmountContents : FirstParse(content)
    \/ Step
    \/ Return

SpecAmount == Init /\ [][NextAmount]_vars

(***************************************************************************)
(* C2  parse_content never raises.                                         *)
(***************************************************************************)
\* C2 as stated: parse_content never raises, whatever the content; an EB
\* segment whose amount is not a well-formed number is skipped and the call
\* returns normally.
C2_NeverRaises == pc # "raised" /\ exc = "none"

(***************************************************************************)
(* C4  Amounts that are no numbers are never formatted as currency.        *)
(***************************************************************************)
AmountFields ==
    {"individual_deductible", "individual_deductible_met",
     "preventative_care_copay"}

\* s is '$', an optional '-', digits in groups of three separated by ',',
\* '.', and exactly two digits
IsCurrency(s) ==
    /\ Len(s) >= 5
    /\ s[1] = "$"
    /\ LET neg   == s[2] = "-"
           from  == IF neg THEN 3 ELSE 2
           upto  == Len(s) - 3
           whole == SubSeq(s, from, upto)
           n     == Len(whole)
       IN  /\ n >= 1
           /\ \A i \in 1..n :
                  IF (n - i + 1) % 4 = 0 THEN whole[i] = ","
                                         ELSE whole[i] \in Digit
           /\ whole[1] # ","
           /\ whole[1] = "0" => n = 1
           /\ s[Len(s) - 2] = "."
           /\ s[Len(s) - 1] \in Digit
           /\ s[Len(s)] \in Digit

\* 10 to the power k
RECURSIVE Pow10(_)
Pow10(k) == IF k = 0 THEN 1 ELSE 10 * Pow10(k - 1)

\* the number of cents a currency string s shows
ShownCents(s) ==
    LET body   == IF s[2] = "-" THEN SubSeq(s, 3, Len(s)) ELSE SubSeq(s, 2, Len(s))
        digits == SelectSeq(body, LAMBDA c : c \in Digit)
    IN  ToNat(digits)

\* s shows the numeric amount a to the nearest cent, with a's sign
ShowsAmount(s, a) ==
    LET neg   == a[1] = "-"
        body  == IF neg THEN SubSeq(a, 2, Len(a)) ELSE a
        point == IF \E i \in 1..Len(body) : body[i] = "."
                 THEN CHOOSE i \in 1..Len(body) : body[i] = "."
                 ELSE Len(body) + 1
        k     == IF point > Len(body) THEN 0 ELSE Len(body) - point
        units == ToNat(SelectSeq(body, LAMBDA c : c \in Digit))
        diff  == ShownCents(s) * Pow10(k) - units * 100
    IN  /\ IsCurrency(s)
        /\ (s[2] = "-") = neg
        /\ 2 * diff <= Pow10(k)
        /\ 2 * diff >= -Pow10(k)

\* C4, for the step that processes an EB segment with a field[7]: if
\* field[7] is not a numeric amount the step changes none of
\* individual_deductible, individual_deductible_met and
\* preventative_care_copay; if it is, every one of them the step assigns is
\* '$' followed by the amount with thousands separators and two decimals.
C4_AmountStep ==
    pc = "parsing" /\ idx < Len(segments) =>
        LET e == Elems(idx + 1) IN
        e[1] = LitEB /\ Len(e) > 7 =>
            \A f \in AmountFields :
                data'[f] # data[f] =>
                    NumericAmount(e[8]) /\ ShowsAmount(data'[f], e[8])

\* C4: amounts that are no numbers are never formatted; numbers are
\* formatted as currency.
C4_OnlyNumbersFormatted == [][C4_AmountStep]_vars

\* an amount in the millions has been formatted, with its separators
C4_Witness ==
    /\ LoopDone
    /\ segments = <<AmountSeg(LitP22, <<"1", "2", "3", "4", "5", "6", "7", ".", "5">>)>>
    /\ data.individual_deductible = <<"$", "1", ",", "2", "3", "4", ",", "5", "6", "7", ".", "5", "0">>
    /\ data.preventative_care_copay = <<"$", "1", ",", "2", "3", "4", ",", "5", "6", "7", ".", "5", "0">>

(***************************************************************************)
(* SpecTrunc: first parses of contents that hold a segment of a recognised *)
(* tag cut after any number of its fields, alone, followed by a complete   *)
(* REF segment, or preceded by an N3 segment (so that N4 has an address).  *)
(***************************************************************************)

\* EB*B*IND*MH*A3*PREVENTIVE CARE PLAN*22*25.00
FullEB ==
    Seg(<<<<"E", "B">>, <<"B">>, <<"I", "N", "D">>, <<"M", "H">>,
        <<"A", "3">>,
        <<"P", "R", "E", "V", "E", "N", "T", "I", "V", "E", " ", "C", "A", "R", "E", " ", "P", "L", "A", "N">>,
        <<"2", "2">>, <<"2", "5", ".", "0", "0">>>>)

FullSegments ==
    {Sample01, Sample02, Sample04, Sample06, Sample09, Sample10, Sample11,
     Sample12, Sample13, Sample14, FullEB}

\* the first k fields of a segment, k >= 1
Truncated(segment, k) == Seg(SubSeq(Split(segment, "*"), 1, k))

TruncPool ==
    UNION {{Truncated(segment, k) : k \in 1..Len(Split(segment, "*"))} :
              segment \in FullSegments}

\* REF*18*GRP12345, the segment that follows a truncated one
Follower == Sample10

TruncContents ==
    UNION {{MakeContent(<<t>>), MakeContent(<<t, Follower>>),
            MakeContent(<<Sample12, t>>)} : t \in TruncPool}

NextTrunc ==
    \/ NewParser
    \/ \E content \in TruncContents : FirstParse(content)
    \/ Step
    \/ Return

SpecTrunc == Init /\ [][NextTrunc]_vars

(***************************************************************************)
(* C3  Every positional access is guarded by a length check.               *)
(***************************************************************************)
\* the tag and the number of fields a segment must have for the rule that
\* assigns field f of the record
Needs(f) ==
    CASE f = "transaction_id" -> {<<LitST, 3>>}
      [] f = "response_date" -> {<<LitBHT, 5>>}
      [] f = "payer_name" -> {<<LitNM1, 4>>}
      [] f = "provider_name" -> {<<LitNM1, 4>>}
      [] f = "provider_npi" -> {<<LitNM1, 10>>}
      [] f = "subscriber_name" -> {<<LitNM1, 5>>}
      [] f = "member_id" -> {<<LitNM1, 10>>}
      [] f = "group_number" -> {<<LitREF, 3>>}
      [] f = "employer" -> {<<LitREF, 3>>}
      [] f = "address" -> {<<LitN3, 2>>, <<LitN4, 4>>}
      [] f = "date_of_birth" -> {<<LitDMG, 3>>}
      [] f = "gender" -> {<<LitDMG, 4>>}
      [] f = "plan_name" -> {<<LitEB, 6>>}
      [] f = "individual_deductible" -> {<<LitEB, 8>>}
      [] f = "individual_deductible_met" -> {<<LitEB, 8>>}
      [] f = "preventative_care_copay" -> {<<LitEB, 8>>}
      [] f = "mental_health_covered" -> {<<LitEB, 4>>}
      [] OTHER -> {}

\* C3, no access out of range: no segment, however short, raises IndexError.
C3_NoIndexError == exc # "IndexError"

\* C3, a rule whose field is absent assigns nothing: a step changes a field
\* of the record only if the segment has the tag and the number of fields
\* the rule of that field reads.
C3_AbsentAssignsNothing ==
    pc = "parsing" /\ idx < Len(segments) =>
        LET e == Elems(idx + 1) IN
        \A f \in Fields :
            data'[f] # data[f] =>
                \E need \in Needs(f) : e[1] = need[1] /\ Len(e) >= need[2]

\* C3, the later segments are still processed: no call ends in an exception,
\* a call returns only after its last segment, and the complete REF segment
\* after a truncated one has had its effect on the record returned.
C3_LaterProcessed ==
    /\ pc # "raised"
    /\ pc' = "returned" =>
           /\ idx = Len(segments)
           /\ segments[Len(segments)] = Follower =>
                  data'.group_number = Elems(Len(segments))[3]

\* C3: positional accesses are guarded (the three parts above).
C3_AccessGuarded ==
    /\ []C3_NoIndexError
    /\ [][C3_AbsentAssignsNothing]_vars
    /\ [][C3_LaterProcessed]_vars

\* "ST*271" (two fields) assigned nothing and the REF after it was processed
C3_Witness ==
    /\ LoopDone
    /\ segments = <<Truncated(Sample01, 2), Follower>>
    /\ data.transaction_id = Empty
    /\ data.group_number = <<"G", "R", "P", "1", "2", "3", "4", "5">>

(***************************************************************************)
(* SpecCopay: first parses of contents of EB segments that differ in the   *)
(* benefit type field[1], the benefit code field[4], the description       *)
(* field[5] and the amount field[7].  Sample18 and Copay1 are the segments *)
(* of test_preventative_care_copay_parsing.                                *)
(***************************************************************************)

\* EB*C*IND**98*WELLNESS VISIT*23*15.00
Copay1 ==
    Seg(<<<<"E", "B">>, <<"C">>, <<"I", "N", "D">>, <<>>, <<"9", "8">>,
        <<"W", "E", "L", "L", "N", "E", "S", "S", " ", "V", "I", "S", "I", "T">>,
        <<"2", "3">>, <<"1", "5", ".", "0", "0">>>>)

\* EB*1*IND**A3*MEDICAL PLAN*23*30
Copay2 ==
    Seg(<<<<"E", "B">>, <<"1">>, <<"I", "N", "D">>, <<>>, <<"A", "3">>,
        <<"M", "E", "D", "I", "C", "A", "L", " ", "P", "L", "A", "N">>,
        <<"2", "3">>, <<"3", "0">>>>)

\* EB*1*IND**30*Preventive visit*23*40
Copay3 ==
    Seg(<<<<"E", "B">>, <<"1">>, <<"I", "N", "D">>, <<>>, <<"3", "0">>,
        <<"P", "r", "e", "v", "e", "n", "t", "i", "v", "e", " ", "v", "i", "s", "i", "t">>,
        <<"2", "3">>, <<"4", "0">>>>)

\* EB*B*IND**30*MEDICAL PLAN*23*50
Copay4 ==
    Seg(<<<<"E", "B">>, <<"B">>, <<"I", "N", "D">>, <<>>, <<"3", "0">>,
        <<"M", "E", "D", "I", "C", "A", "L", " ", "P", "L", "A", "N">>,
        <<"2", "3">>, <<"5", "0">>>>)

\* EB*B*IND**A3*MEDICAL PLAN*23*N/A
Copay5 ==
    Seg(<<<<"E", "B">>, <<"B">>, <<"I", "N", "D">>, <<>>, <<"A", "3">>,
        <<"M", "E", "D", "I", "C", "A", "L", " ", "P", "L", "A", "N">>,
        <<"2", "3">>, <<"N", "/", "A">>>>)

\* EB*B*IND**98
Copay6 ==
    Seg(<<<<"E", "B">>, <<"B">>, <<"I", "N", "D">>, <<>>, <<"9", "8">>>>)

\* EB*C*IND**A3*MEDICAL PLAN*23*1.2.3
Copay7 ==
    Seg(<<<<"E", "B">>, <<"C">>, <<"I", "N", "D">>, <<>>, <<"A", "3">>,
        <<"M", "E", "D", "I", "C", "A", "L", " ", "P", "L", "A", "N">>,
        <<"2", "3">>, <<"1", ".", "2", ".", "3">>>>)

CopayPool ==
    {Sample18, Copay1, Copay2, Copay3, Copay4, Copay5, Copay6, Copay7}

NextCopay ==
    \/ NewParser
    \/ \E content \in ContentsOf(CopayPool) : FirstParse(content)
    \/ Step
    \/ Return

SpecCopay == Init /\ [][NextCopay]_vars

(***************************************************************************)
(* C6  When an EB segment assigns preventative_care_copay.                 *)
(***************************************************************************)
\* the conditions C6 states on the fields e of an EB segment
CopayByTypeAndCode(e) ==
    /\ Len(e) > 7
    /\ e[2] \in {LitB, LitC}
    /\ e[5] \in {LitA3, LitB98}
    /\ NumericAmount(e[8])

\* C6 as stated: an EB segment assigns preventative_care_copay if and only if
\* field[1] is B or C, field[4] is A3 or 98, field[7] is numeric and the
\* copay is still empty (so a segment whose field[1] is neither B nor C never
\* sets it).
C6_StepAsStated ==
    pc = "parsing" /\ idx < Len(segments) /\ Elems(idx + 1)[1] = LitEB =>
        (data'.preventative_care_copay # data.preventative_care_copay
            <=> /\ CopayByTypeAndCode(Elems(idx + 1))
                /\ data.preventative_care_copay = Empty)

\* C6 as stated, for every step of a parse.
C6_IffTypeAndCode == [][C6_StepAsStated]_vars

\* the conditions of the code: field[7] numeric, and field[4] A3 or 98 or
\* field[5] containing PREVENTIVE in any letter case; field[1] plays no part
CopayIndicated(e) ==
    /\ Len(e) > 7
    /\ \/ e[5] \in {LitA3, LitB98}
       \/ Contains(LitPREVENTIVE, Upper(e[6]))
    /\ NumericAmount(e[8])

\* the formatted amount of the first segment of the call that indicates a
\* co-pay, empty if none does
FirstCopay ==
    LET hits == {i \in 1..Len(segments) :
                    Elems(i)[1] = LitEB /\ CopayIndicated(Elems(i))} IN
    IF hits = {} THEN Empty
    ELSE FormatAmount(Elems(CHOOSE i \in hits : \A j \in hits : i <= j)[8])

\* the amended condition, for the step that processes an EB segment
C6_StepAmended ==
    pc = "parsing" /\ idx < Len(segments) /\ Elems(idx + 1)[1] = LitEB =>
        (data'.preventative_care_copay # data.preventative_care_copay
            <=> /\ CopayIndicated(Elems(idx + 1))
                /\ data.preventative_care_copay = Empty)

\* C6 amended: an EB segment assigns preventative_care_copay if and only if
\* field[7] is numeric, the copay is still empty, and field[4] is A3 or 98
\* or field[5] contains PREVENTIVE in any letter case, whatever field[1] is;
\* a first parse returns the formatted amount of the first such segment.
C6_IffIndicated ==
    /\ [][C6_StepAmended]_vars
    /\ [](LoopDone => data.preventative_care_copay = FirstCopay)

\* a segment of benefit type 1 has set the co-pay
C6_Witness ==
    /\ LoopDone
    /\ segments = <<Copay4, Copay2>>
    /\ data.preventative_care_copay = <<"$", "3", "0", ".", "0", "0">>

(***************************************************************************)
(* SpecMental: parses, also repeated on one parser, of contents of         *)
(* segments that carry MH as a code, inside a longer code, in lower case,  *)
(* outside an EB segment, or behind an amount on which float() raises.     *)
(***************************************************************************)

\* EB*1*IND*MH
Mental1 ==
    Seg(<<<<"E", "B">>, <<"1">>, <<"I", "N", "D">>, <<"M", "H">>>>)

\* EB*1*IND*AB^MH^CD
Mental2 ==
    Seg(<<<<"E", "B">>, <<"1">>, <<"I", "N", "D">>,
        <<"A", "B", "^", "M", "H", "^", "C", "D">>>>)

\* EB*1*IND*MHX^AB
Mental3 ==
    Seg(<<<<"E", "B">>, <<"1">>, <<"I", "N", "D">>,
        <<"M", "H", "X", "^", "A", "B">>>>)

\* EB*1*IND*XMH
Mental4 ==
    Seg(<<<<"E", "B">>, <<"1">>, <<"I", "N", "D">>, <<"X", "M", "H">>>>)

\* EB*1*IND*mh^AB
Mental5 ==
    Seg(<<<<"E", "B">>, <<"1">>, <<"I", "N", "D">>,
        <<"m", "h", "^", "A", "B">>>>)

\* EB*1*IND
Mental6 ==
    Seg(<<<<"E", "B">>, <<"1">>, <<"I", "N", "D">>>>)

\* NM1*IL*1*MH*MH
Mental7 ==
    Seg(<<<<"N", "M", "1">>, <<"I", "L">>, <<"1">>, <<"M", "H">>,
        <<"M", "H">>>>)

\* EB*1*IND*MH*30*MEDICAL PLAN*22*1.2.3
Mental8 ==
    Seg(<<<<"E", "B">>, <<"1">>, <<"I", "N", "D">>, <<"M", "H">>,
        <<"3", "0">>,
        <<"M", "E", "D", "I", "C", "A", "L", " ", "P", "L", "A", "N">>,
        <<"2", "2">>, <<"1", ".", "2", ".", "3">>>>)

MentalPool ==
    {Mental1, Mental2, Mental3, Mental4, Mental5, Mental6, Mental7, Mental8}

NextMental ==
    \/ NewParser
    \/ \E content \in ContentsOf(MentalPool) : StartParse(content)
    \/ Step
    \/ Return

SpecMental == Init /\ [][NextMental]_vars

(***************************************************************************)
(* C7  mental_health_covered.                                              *)
(***************************************************************************)
\* MH is one of the caret-separated codes of c: it stands between two
\* carets, or between a caret and an end of c
HasCodeMH(c) ==
    \E a \in 1..Len(c) :
        /\ a + 1 <= Len(c)
        /\ c[a] = "M" /\ c[a + 1] = "H"
        /\ a = 1 \/ c[a - 1] = "^"
        /\ a + 1 = Len(c) \/ c[a + 2] = "^"

\* some EB segment of the current call has MH in its field[3]
SomeEBWithMH ==
    \E i \in 1..Len(segments) :
        LET e == Elems(i) IN e[1] = LitEB /\ Len(e) > 3 /\ HasCodeMH(e[4])

\* C7, the value returned by the first parse of a parser: 'Yes' if and only
\* if some EB segment has MH as its field[3] or among its caret-separated
\* codes, 'Not specified' otherwise.
C7_YesIffCode ==
    LoopDone /\ FreshCall =>
        data.mental_health_covered =
            IF SomeEBWithMH THEN LitYes ELSE LitNotSpecified

\* C7, the two values
C7_TwoValues == data.mental_health_covered \in {LitYes, LitNotSpecified}

\* C7, never back: on one parser, 'Yes' stays 'Yes'
C7_StaysYes ==
    data.mental_health_covered = LitYes /\ clock' = clock =>
        data'.mental_health_covered = LitYes

\* C7: mental_health_covered (the three parts above).
C7_MentalHealth == []C7_YesIffCode /\ []C7_TwoValues /\ [][C7_StaysYes]_vars

\* MHX^AB did not count and AB^MH^CD did
C7_Witness ==
    /\ LoopDone
    /\ FreshCall
    /\ segments = <<Mental3, Mental2>>
    /\ data.mental_health_covered = LitYes

(***************************************************************************)
(* SpecDate: first parses of contents of BHT and DMG segments whose date   *)
(* field has eight characters (digits or not) or another length.           *)
(***************************************************************************)
DateStrings ==
    {<<"2", "0", "2", "4", "0", "8", "0", "1">>,
     <<"1", "9", "9", "0", "0", "1", "0", "1">>,
     <<"A", "B", "C", "D", "E", "F", "G", "H">>,
     <<"1", "9", "9", "0", " ", "1", " ", "1">>,
     <<"2", "0", "2", "4", "0", "8", "0">>,
     <<"2", "0", "2", "4", "0", "8", "0", "1", "1">>,
     <<"2", "0", "2", "4", "-", "0", "8", "-", "0", "1">>,
     <<>>}

\* BHT*0022*11*1*<date>*1200
BHTSeg(date) ==
    Seg(<<LitBHT, <<"0", "0", "2", "2">>, <<"1", "1">>, <<"1">>, date,
          <<"1", "2", "0", "0">>>>)

\* DMG*D8*<date>*M
DMGSeg(date) == Seg(<<LitDMG, <<"D", "8">>, date, <<"M">>>>)

DatePool ==
    {BHTSeg(date) : date \in DateStrings} \cup
        {DMGSeg(date) : date \in DateStrings}

NextDate ==
    \/ NewParser
    \/ \E content \in ContentsOf(DatePool) : FirstParse(content)
    \/ Step
    \/ Return

SpecDate == Init /\ [][NextDate]_vars

(***************************************************************************)
(* C8  YYYYMMDD is stored as MM/DD/YYYY.                                   *)
(***************************************************************************)
\* characters 5-6, '/', characters 7-8, '/', characters 1-4 of s
MonthDayYear(s) ==
    <<s[5], s[6], "/", s[7], s[8], "/", s[1], s[2], s[3], s[4]>>

\* what a step that reads the date string s leaves in a field that held old
Reformatted(s, old) == IF Len(s) = 8 THEN MonthDayYear(s) ELSE old

\* C8, for the step that processes a BHT segment with a field[4] or a DMG
\* segment with a field[2]: a date string of exactly 8 characters is stored
\* as MM/DD/YYYY, a string of any other length leaves the field as it was.
C8_DateStep ==
    pc = "parsing" /\ idx < Len(segments) =>
        LET e == Elems(idx + 1) IN
        /\ e[1] = LitBHT /\ Len(e) > 4 =>
               data'.response_date = Reformatted(e[5], data.response_date)
        /\ e[1] = LitDMG /\ Len(e) > 2 =>
               data'.date_of_birth = Reformatted(e[3], data.date_of_birth)

\* C8: date reformatting in BHT field[4] and DMG field[2].
C8_DatesReformatted == [][C8_DateStep]_vars

\* a date was stored, and a later date of seven characters left it there
C8_Witness ==
    /\ LoopDone
    /\ segments = <<BHTSeg(<<"2", "0", "2", "4", "0", "8", "0", "1">>),
                    BHTSeg(<<"2", "0", "2", "4", "0", "8", "0">>)>>
    /\ data.response_date = <<"0", "8", "/", "0", "1", "/", "2", "0", "2", "4">>

(***************************************************************************)
(* SpecAddr: parses, also repeated on one parser, of contents of N3 and N4 *)
(* segments in every order: two address lines, an empty address line, a    *)
(* complete N4 and an N4 without its zip code.                             *)
(***************************************************************************)

\* N3*9 ELM RD
Addr1 ==
    Seg(<<<<"N", "3">>, <<"9", " ", "E", "L", "M", " ", "R", "D">>>>)

\* N4*SPRINGFIELD*IL
Addr2 ==
    Seg(<<<<"N", "4">>,
        <<"S", "P", "R", "I", "N", "G", "F", "I", "E", "L", "D">>,
        <<"I", "L">>>>)

\* N3*
Addr3 ==
    Seg(<<<<"N", "3">>, <<>>>>)

AddrPool ==
    {Sample12, Sample13, Addr1, Addr2, Addr3}

NextAddr ==
    \/ NewParser
    \/ \E content \in ContentsOf(AddrPool) : StartParse(content)
    \/ Step
    \/ Return

SpecAddr == Init /\ [][NextAddr]_vars

(***************************************************************************)
(* C9  The address depends on the order of N3 and N4.                      *)
(***************************************************************************)
\* ', CITY, STATE ZIP' of an N4 segment with fields e
CityStateZip(e) ==
    <<",", " ">> \o e[2] \o <<",", " ">> \o e[3] \o <<" ">> \o e[4]

\* C9, for the step that processes an N4 segment with fields 1-3 or an N3
\* segment with a field[1]: N4 appends ', CITY, STATE ZIP' if the address is
\* non-empty at that point and leaves an empty address empty; N3 replaces
\* the whole address with its field[1].
C9_AddressStep ==
    pc = "parsing" /\ idx < Len(segments) =>
        LET e == Elems(idx + 1) IN
        /\ e[1] = LitN4 /\ Len(e) > 3 =>
               data'.address =
                   IF data.address # Empty
                   THEN data.address \o CityStateZip(e)
                   ELSE Empty
        /\ e[1] = LitN3 /\ Len(e) > 1 => data'.address = e[2]

\* C9, in the first parse of a parser: as long as no N3 segment has been
\* processed the address is empty, whatever N4 segments came.
C9_EmptyBeforeN3 ==
    FreshCall /\ (\A i \in 1..idx : Elems(i)[1] # LitN3) =>
        data.address = Empty

\* C9: address assembly is order-dependent (both parts above).
C9_AddressOrder == [][C9_AddressStep]_vars /\ []C9_EmptyBeforeN3

\* N4 came first and was dropped, the N3 after it gave the whole address
C9_Witness ==
    /\ LoopDone
    /\ FreshCall
    /\ segments = <<Sample13, Sample12>>
    /\ data.address = <<"1", "2", "3", " ", "M", "A", "I", "N", " ", "S", "T">>

(***************************************************************************)
(* C11, C12  One parser, several parse_content calls.  The parser builds   *)
(* its record once, in __init__ (line 226); parse_content never replaces   *)
(* or resets it, writes into it (lines 254-353) and returns it (line 355). *)
(***************************************************************************)
\* the fold of lines 247-353 over a list of segments, from the machine m;
\* an exception ends it
RECURSIVE ParseFrom(_, _)
ParseFrom(segs, m) ==
    IF segs = <<>> \/ m.exc # "none" THEN m
    ELSE ParseFrom(Tail(segs), ProcessSegment(Head(segs), m.d))

\* SimpleEDI271Parser().parse_content on these segments: the fold from the
\* record a new parser constructs
FreshParse(segs) ==
    ParseFrom(segs, [d |-> EligibilityResponse(clock), exc |-> "none"])

\* the fields parse_content extracts: all but the construction time
Extracted(d) == [f \in Fields \ {"created_at"} |-> d[f]]

\* C11: a record returned by parse_content is not mutated after that parse
\* completes: as long as the caller holds the record a call on this parser
\* returned, no later call on the parser changes any of its fields.
C11_ReturnedNotMutated ==
    [][(returned /\ returned') => data' = data]_vars

\* C12: the extraction is stateless: whatever calls were made on the parser
\* before, a call that reaches its return statement returns the extracted
\* fields a freshly constructed parser returns for the same segments.
C12_Stateless ==
    LoopDone =>
        /\ FreshParse(segments).exc = "none"
        /\ Extracted(data) = Extracted(FreshParse(segments).d)

(***************************************************************************)
(* DatabaseManager (lines 50-222).                                         *)
(*                                                                         *)
(* A method runs in steps: it is called, get_connection takes a connection *)
(* (lines 75-80), the block of the with statement runs its statement, the  *)
(* exit path of get_connection runs (lines 82-89), and the method returns  *)
(* or raises.  What the database and the pool answer is the environment's  *)
(* choice: an open pool hands out a connection, a closed one raises, and   *)
(* any statement may fail with a psycopg2.Error.                           *)
(***************************************************************************)
LitInactive == <<"I", "n", "a", "c", "t", "i", "v", "e">>

\* str.zfill(width): zeros on the left, after a leading sign
ZFill(s, width) ==
    LET zeros == [i \in 1..(width - Len(s)) |-> "0"] IN
    IF Len(s) >= width THEN s
    ELSE IF s # Empty /\ s[1] \in {"+", "-"}
         THEN <<s[1]>> \o zeros \o Tail(s)
         ELSE zeros \o s

\* _parse_date without the zfill calls
ParseDateUnpadded(date_str) ==
    IF date_str = None \/ date_str = Empty THEN None
    ELSE IF Contains(<<"/">>, date_str) /\ Len(Split(date_str, "/")) = 3
         THEN LET parts == Split(date_str, "/") IN
              parts[3] \o <<"-">> \o parts[1] \o <<"-">> \o parts[2]
         ELSE date_str

\* lines 203-216: _parse_date.  Nothing between lines 209 and 213 raises
\* ValueError or IndexError, so the handler of lines 214-216 never runs.
ParseDate(date_str) ==
    IF date_str = None \/ date_str = Empty THEN None
    ELSE IF Contains(<<"/">>, date_str) /\ Len(Split(date_str, "/")) = 3
         THEN LET parts == Split(date_str, "/") IN
              parts[3] \o <<"-">> \o ZFill(parts[1], 2)
                       \o <<"-">> \o ZFill(parts[2], 2)
         ELSE date_str

\* lines 153-155: asdict(data) with the two dates converted
DataDict(record) ==
    [record EXCEPT !.response_date = ParseDate(@),
                   !.date_of_birth = ParseDate(@)]

\* lines 136-141: the columns the INSERT statement names
InsertColumns == Fields \ {"created_at"}

\* a date in the form YYYY-MM-DD that every month has
IsoDate(v) ==
    /\ Len(v) = 10
    /\ v[5] = "-" /\ v[8] = "-"
    /\ \A i \in {1, 2, 3, 4, 6, 7, 9, 10} : v[i] \in Digit
    /\ ToNat(SubSeq(v, 6, 7)) \in 1..12
    /\ ToNat(SubSeq(v, 9, 10)) \in 1..28

\* lines 97, 106: response_date and date_of_birth are DATE columns.  Whether
\* the database takes a parameter for one: NULL and an ISO date are taken,
\* a text without a digit is refused (invalid input syntax for type date),
\* and for any other text the answer depends on the server's date parser.
DateOutcomes(v) ==
    IF v = None \/ IsoDate(v) THEN {TRUE}
    ELSE IF \A i \in 1..Len(v) : v[i] \notin Digit THEN {FALSE}
    ELSE BOOLEAN

\* a statement fails with a psycopg2.Error at time t; a failed INSERT may
\* or may not have drawn a value from the SERIAL sequence
Failures(db, t, serials) ==
    {[kind |-> "dberror", value |-> <<>>,
      database |-> [db EXCEPT !.now = t, !.serial = sv]] : sv \in serials}

\* an exception that is no psycopg2.Error leaves the block (asdict raising
\* TypeError on line 153 for an argument that is no dataclass instance, a
\* KeyboardInterrupt)
Interrupted(db, t) ==
    {[kind |-> "other", value |-> <<>>, database |-> [db EXCEPT !.now = t]]}

\* lines 135-161: the INSERT ... RETURNING id, the commit and the return
InsertOutcomes(record, db) ==
    LET data_dict == DataDict(record)
        t == db.now + 1
        id == db.serial + 1
        row == [id |-> id, created_at |-> t, updated_at |-> t,
                cols |-> [c \in InsertColumns |-> data_dict[c]]]
        taken == /\ TRUE \in DateOutcomes(data_dict.response_date)
                 /\ TRUE \in DateOutcomes(data_dict.date_of_birth)
    IN  {[kind |-> "normal", value |-> <<id>>,
          database |-> [rows |-> Append(db.rows, row), serial |-> id,
                        now |-> t]] : ok \in {x \in {TRUE} : taken}}
        \cup Failures(db, t, {db.serial, id})
        \cup Interrupted(db, t)

\* ORDER BY created_at ASC in place of DESC
Oldest(rows, member_id) ==
    LET matching == {i \in DOMAIN rows : rows[i].cols.member_id = member_id}
    IN  {i \in matching :
            \A j \in matching : rows[i].created_at <= rows[j].created_at}

\* lines 169-172: WHERE member_id = %s ORDER BY created_at DESC LIMIT 1: the
\* rows the statement may answer with
Latest(rows, member_id) ==
    LET matching == {i \in DOMAIN rows : rows[i].cols.member_id = member_id}
    IN  {i \in matching :
            \A j \in matching : rows[j].created_at <= rows[i].created_at}

\* lines 168-180: the SELECT, fetchone and the return
GetOutcomes(member_id, db) ==
    LET t == db.now + 1
        found == Latest(db.rows, member_id)
    IN  {[kind |-> "normal",
          value |-> IF i = 0 THEN <<>> ELSE <<db.rows[i]>>,
          database |-> [db EXCEPT !.now = t]] :
             i \in IF found = {} THEN {0} ELSE found}
        \cup Failures(db, t, {db.serial})
        \cup Interrupted(db, t)

\* the UPDATE without its WHERE clause
UpdateRowsAll(rows, record_id, status, t) ==
    [i \in DOMAIN rows |->
        [rows[i] EXCEPT !.cols.status = status, !.updated_at = t]]

\* lines 188-190: SET status = %s, updated_at = CURRENT_TIMESTAMP WHERE id = %s
UpdateRows(rows, record_id, status, t) ==
    [i \in DOMAIN rows |->
        IF rows[i].id = record_id
        THEN [rows[i] EXCEPT !.cols.status = status, !.updated_at = t]
        ELSE rows[i]]

\* lines 187-198: the UPDATE, the commit and cursor.rowcount > 0
UpdateOutcomes(record_id, status, db) ==
    LET t == db.now + 1
        rowcount == Cardinality({i \in DOMAIN db.rows :
                                    db.rows[i].id = record_id})
    IN  {[kind |-> "normal", value |-> <<rowcount > 0>>,
          database |-> [db EXCEPT !.now = t,
                           !.rows = UpdateRows(@, record_id, status, t)]]}
        \cup Failures(db, t, {db.serial})
        \cup Interrupted(db, t)

\* lines 93-128: CREATE TABLE IF NOT EXISTS and the indexes
CreateSchemaOutcomes(db) ==
    LET t == db.now + 1 IN
    {[kind |-> "normal", value |-> <<>>, database |-> [db EXCEPT !.now = t]]}
        \cup Failures(db, t, {db.serial})
        \cup Interrupted(db, t)

\* what the block of the method in progress can do
BodyOutcomes(op, db) ==
    CASE op.name = "insert_eligibility_response" ->
             InsertOutcomes(op.args[1], db)
      [] op.name = "get_eligibility_by_member_id" ->
             GetOutcomes(op.args[1], db)
      [] op.name = "update_eligibility_status" ->
             UpdateOutcomes(op.args[1], op.args[2], db)
      [] op.name = "create_schema" -> CreateSchemaOutcomes(db)

\* get_connection releasing only on the normal path (no finally clause)
ExitPathNoFinally(kind) ==
    IF kind = "normal" THEN <<"putconn">> ELSE <<>>

\* lines 82-89: what get_connection does when the block is left: after a
\* psycopg2.Error the rollback and then, in the finally clause, putconn;
\* otherwise putconn alone
ExitPath(kind) ==
    IF kind = "dberror" THEN <<"rollback", "putconn">> ELSE <<"putconn">>

\* a method of the manager is entered with these arguments
Begin(name, args) ==
    /\ dbop.stage = "idle"
    /\ database.now < MaxOps
    /\ name = "insert_eligibility_response" => Len(database.rows) < MaxRows
    /\ dbop' = [IdleOp EXCEPT !.name = name, !.args = args,
                              !.stage = "called"]

\* a client of the manager calls one of its methods (src/test_database.py,
\* lines 56-70)
Call(name, args) ==
    /\ Quiet
    /\ Begin(name, args)
    /\ UNCHANGED <<data, pc, segments, idx, exc, calls, clock, returned,
                   db_manager, connection_pool, database, dbres, wrapper,
                   file, cli>>

\* lines 75-80: the pool is made on first use; getconn.  A failing
\* initialize_pool raises before the try statement; getconn on a closed pool
\* raises inside it with conn still None, so nothing is rolled back or put.
DbEnter ==
    /\ dbop.stage = "called"
    /\ \E init_ok \in BOOLEAN :
         LET made == IF connection_pool.state = "none" /\ init_ok
                     THEN [connection_pool EXCEPT !.state = "open",
                                                  !.inits = @ + 1]
                     ELSE connection_pool
         IN  /\ connection_pool.state # "none" => init_ok
             /\ IF made.state = "open"
                THEN /\ connection_pool' = [made EXCEPT !.out = @ + 1]
                     /\ dbop' = [dbop EXCEPT !.stage = "body"]
                ELSE /\ connection_pool' = made
                     /\ dbop' = [dbop EXCEPT !.stage = "exit",
                                             !.kind = "dberror"]
    /\ UNCHANGED <<data, pc, segments, idx, exc, calls, clock, returned,
                   db_manager, database, dbres, wrapper, file, cli>>

\* the block of the with statement runs
DbBody ==
    /\ dbop.stage = "body"
    /\ \E o \in BodyOutcomes(dbop, database) :
         /\ database' = o.database
         /\ dbop' = [dbop EXCEPT
                !.stage = "exit", !.kind = o.kind, !.value = o.value,
                !.todo = ExitPath(o.kind),
                !.data_dict =
                    IF dbop.name = "insert_eligibility_response"
                       /\ o.kind # "other"
                    THEN DataDict(dbop.args[1]) ELSE <<>>]
    /\ UNCHANGED <<data, pc, segments, idx, exc, calls, clock, returned,
                   db_manager, connection_pool, dbres, wrapper, file, cli>>

\* line 84: conn.rollback()
DbRollback ==
    /\ dbop.stage = "exit"
    /\ dbop.todo # <<>> /\ Head(dbop.todo) = "rollback"
    /\ dbop' = [dbop EXCEPT !.todo = Tail(@), !.rolled_back = TRUE]
    /\ UNCHANGED <<data, pc, segments, idx, exc, calls, clock, returned,
                   db_manager, connection_pool, database, dbres, wrapper,
                   file, cli>>

\* line 89: self.connection_pool.putconn(conn)
DbPutConn ==
    /\ dbop.stage = "exit"
    /\ dbop.todo # <<>> /\ Head(dbop.todo) = "putconn"
    /\ dbop' = [dbop EXCEPT !.todo = Tail(@)]
    /\ connection_pool' = [connection_pool EXCEPT !.out = @ - 1]
    /\ UNCHANGED <<data, pc, segments, idx, exc, calls, clock, returned,
                   db_manager, database, dbres, wrapper, file, cli>>

\* the method returns its value or, after logging (lines 162-164, 181-183,
\* 199-201, 129-131), raises the exception on
DbReturn ==
    /\ dbop.stage = "exit"
    /\ dbop.todo = <<>>
    /\ dbres' = [kind |-> IF dbop.kind = "normal" THEN "return" ELSE "raise",
                 value |-> dbop.value,
                 exc |-> CASE dbop.kind = "normal" -> "none"
                           [] dbop.kind = "dberror" -> "psycopg2.Error"
                           [] dbop.kind = "other" -> "Exception"]
    /\ dbop' = IdleOp
    /\ UNCHANGED <<data, pc, segments, idx, exc, calls, clock, returned,
                   db_manager, connection_pool, database, wrapper, file, cli>>

\* lines 218-222: close_pool
ClosePool ==
    /\ Quiet
    /\ connection_pool.state = "open"
    /\ connection_pool' = [connection_pool EXCEPT !.state = "closed"]
    /\ UNCHANGED <<data, pc, segments, idx, exc, calls, clock, returned,
                   db_manager, database, dbop, dbres, wrapper, file, cli>>

(***************************************************************************)
(* SpecDb: a client inserts records, fetches by member id, updates         *)
(* statuses and closes the pool.                                           *)
(***************************************************************************)
LitM1 == <<"M", "1">>
LitM2 == <<"M", "2">>

\* 01/15/2024, the form parse_content gives a date (line 259)
DateUS == <<"0", "1", "/", "1", "5", "/", "2", "0", "2", "4">>

\* invalid-date (src/test/test_edi271_parser.py, line 223)
DateInvalid ==
    <<"i", "n", "v", "a", "l", "i", "d", "-", "d", "a", "t", "e">>

\* the record of a parser with a member id and a response date
DbRecord(member_id, date) ==
    [EligibilityResponse(1) EXCEPT !.member_id = member_id,
                                   !.response_date = date]

DbRecords ==
    {DbRecord(m, d) : m \in {LitM1, LitM2}, d \in {Empty, DateUS, DateInvalid}}

NextDb ==
    \/ \E record \in DbRecords :
           Call("insert_eligibility_response", <<record>>)
    \/ \E m \in {LitM1, LitM2} : Call("get_eligibility_by_member_id", <<m>>)
    \/ \E id \in 1..MaxOps, status \in {LitActive, LitInactive} :
           Call("update_eligibility_status", <<id, status>>)
    \/ DbEnter
    \/ DbBody
    \/ DbRollback
    \/ DbPutConn
    \/ DbReturn
    \/ ClosePool

SpecDb == Init /\ [][NextDb]_vars

(***************************************************************************)
(* SpecParseDate: records whose response_date or date_of_birth is any      *)
(* string of at most MaxDateLen characters of DateChars, a date of the     *)
(* tests, or None, are inserted into an empty table.                       *)
(***************************************************************************)
DateChars == {"1", "/", "-", "x"}

\* 1/5/2024 (src/test/test_edi271_parser.py, line 218)
DateShort == <<"1", "/", "5", "/", "2", "0", "2", "4">>

\* 2024-01-15 (src/test/test_edi271_parser.py, line 222)
DateIso == <<"2", "0", "2", "4", "-", "0", "1", "-", "1", "5">>

DateInputs ==
    UNION {[1..n -> DateChars] : n \in 0..MaxDateLen}
        \cup {None, DateUS, DateShort, DateIso, DateInvalid}

DateRecords ==
    {[EligibilityResponse(1) EXCEPT !.response_date = d] : d \in DateInputs}
        \cup {[EligibilityResponse(1) EXCEPT !.date_of_birth = d] :
                 d \in DateInputs}

\* the first call made on a new manager
FirstCall(name, args) == dbres = NoResult /\ Call(name, args)

NextParseDate ==
    \/ \E record \in DateRecords :
           FirstCall("insert_eligibility_response", <<record>>)
    \/ DbEnter
    \/ DbBody
    \/ DbRollback
    \/ DbPutConn
    \/ DbReturn

SpecParseDate == Init /\ [][NextParseDate]_vars

(***************************************************************************)
(* C13  _parse_date, as insert applies it.                                 *)
(***************************************************************************)
\* a part padded with zeros to two characters (behind a sign, if it has one)
Pad2(part) ==
    IF Len(part) >= 2 THEN part
    ELSE IF part = Empty THEN <<"0", "0">>
    ELSE IF part[1] \in {"+", "-"} THEN <<part[1], "0">>
    ELSE <<"0", part[1]>>

\* the positions of the slashes of s
Slashes(s) == {i \in 1..Len(s) : s[i] = "/"}

\* what the claim says _parse_date returns: None for an empty or None input,
\* Y-MM-DD for M/D/Y, every other string unchanged
ClaimedDate(s) ==
    IF s = None \/ s = Empty THEN None
    ELSE IF Cardinality(Slashes(s)) = 2
    THEN LET i == CHOOSE k \in Slashes(s) : \A l \in Slashes(s) : k <= l
             j == CHOOSE k \in Slashes(s) : \A l \in Slashes(s) : l <= k
         IN  SubSeq(s, j + 1, Len(s)) \o <<"-">>
                 \o Pad2(SubSeq(s, 1, i - 1)) \o <<"-">>
                 \o Pad2(SubSeq(s, i + 1, j - 1))
    ELSE s

\* insert has converted the two dates of its argument (lines 153-155)
Converted ==
    /\ dbop.name = "insert_eligibility_response"
    /\ dbop.stage = "exit"
    /\ dbop.data_dict # <<>>

\* C13: _parse_date, applied by insert to response_date and date_of_birth,
\* returns None for an empty or None input, 'Y-MM-DD' with month and day
\* zero-padded to two digits for a string that splits on '/' into exactly
\* three parts M, D, Y, and every other string unchanged.
C13_ParseDate ==
    Converted =>
        /\ dbop.data_dict.response_date
               = ClaimedDate(dbop.args[1].response_date)
        /\ dbop.data_dict.date_of_birth
               = ClaimedDate(dbop.args[1].date_of_birth)

\* insert has turned 1/5/2024 into 2024-01-05
C13_Witness ==
    /\ Converted
    /\ dbop.args[1].response_date = DateShort
    /\ dbop.data_dict.response_date
           = <<"2", "0", "2", "4", "-", "0", "1", "-", "0", "5">>
    /\ dbop.data_dict.date_of_birth = None

(***************************************************************************)
(* Vocabulary of the properties of the persistence layer.                  *)
(***************************************************************************)
\* the rows of the table
Rows == database.rows

\* the method in progress is name and control is in its block
InBlock(name) == dbop.name = name /\ dbop.stage = "body"

\* the method in progress is name and its block has ended normally
Completed(name) ==
    dbop.name = name /\ dbop.stage = "exit" /\ dbop.kind = "normal"

\* the step in which the block of method name runs to its normal end
BlockStep(name) == InBlock(name) /\ Completed(name)'

(***************************************************************************)
(* C14  Dates that are no MM/DD/YYYY date, on insert.                      *)
(***************************************************************************)
\* s is a date in the form MM/DD/YYYY: digits around exactly two slashes
MonthDayYearDate(s) ==
    /\ s # None
    /\ Cardinality(Slashes(s)) = 2
    /\ \A i \in 1..Len(s) : s[i] = "/" \/ s[i] \in Digit
    /\ \A i \in Slashes(s) : 1 < i /\ i < Len(s) /\ i + 1 \notin Slashes(s)

\* a value that is present and is no such date
Unparseable(s) == s # None /\ s # Empty /\ ~MonthDayYearDate(s)

\* C14: on insert, a response_date or date_of_birth value that is not a
\* parseable MM/DD/YYYY date is stored as null, and the write does not fail
\* because of it: with such a value in the record, the INSERT can succeed,
\* and when it does the row holds NULL in that column.
C14_UnparseableStoredNull ==
    \A f \in {"response_date", "date_of_birth"} :
        (/\ InBlock("insert_eligibility_response")
         /\ Unparseable(dbop.args[1][f]))
        => /\ \E o \in BodyOutcomes(dbop, database) : o.kind = "normal"
           /\ \A o \in BodyOutcomes(dbop, database) :
                  o.kind = "normal" =>
                      o.database.rows[Len(o.database.rows)].cols[f] = None

(***************************************************************************)
(* C15  get_eligibility_by_member_id.                                      *)
(***************************************************************************)
\* the stored record created last among those of member m, None if there
\* is none; rows are kept in the order of their creation
LastCreated(m) ==
    LET mine == {i \in DOMAIN Rows : Rows[i].cols.member_id = m} IN
    IF mine = {} THEN <<>>
    ELSE <<Rows[CHOOSE i \in mine : \A j \in mine : j <= i]>>

\* C15: after any sequence of insert and update_status operations,
\* get_eligibility_by_member_id(m) returns the most recently created stored
\* record whose member_id equals m, and None when no stored record has it.
C15_GetLatest ==
    Completed("get_eligibility_by_member_id") =>
        dbop.value = LastCreated(dbop.args[1])

\* two records of one member are stored, the older one has had its status
\* updated, and the fetch has answered with the newer one
C15_Witness ==
    /\ Completed("get_eligibility_by_member_id")
    /\ Len(Rows) = 2
    /\ Rows[1].cols.member_id = Rows[2].cols.member_id
    /\ Rows[1].cols.status = LitInactive
    /\ dbop.value = <<Rows[2]>>

(***************************************************************************)
(* C16  update_eligibility_status.                                         *)
(***************************************************************************)
\* the UPDATE of update_eligibility_status(record_id, status), as claimed
C16_UpdateStep ==
    BlockStep("update_eligibility_status") =>
        LET record_id == dbop.args[1]
            status == dbop.args[2]
            exists == \E i \in DOMAIN Rows : Rows[i].id = record_id
        IN  /\ dbop'.value = <<exists>>
            /\ DOMAIN Rows' = DOMAIN Rows
            /\ \A i \in DOMAIN Rows :
                 IF Rows[i].id = record_id
                 THEN /\ Rows'[i].cols.status = status
                      /\ [Rows'[i] EXCEPT !.cols.status = Rows[i].cols.status,
                                          !.updated_at = Rows[i].updated_at]
                             = Rows[i]
                 ELSE Rows'[i] = Rows[i]

\* C16: update_eligibility_status(row_id, status) returns True exactly when
\* a stored row with that id exists; it then sets only that row's status
\* (and update timestamp), leaving every other field of that row and every
\* other row unchanged; when no such row exists it returns False and
\* changes nothing.
C16_UpdateStatus == [][C16_UpdateStep]_vars

\* an update has returned True with two rows stored: the row it names is
\* Inactive, the other row is as it was inserted
C16_Witness ==
    /\ Completed("update_eligibility_status")
    /\ dbop.value = <<TRUE>>
    /\ Len(Rows) = 2
    /\ \E i, j \in DOMAIN Rows :
         /\ Rows[i].id = dbop.args[1]
         /\ Rows[i].cols.status = LitInactive
         /\ Rows[i].updated_at > Rows[i].created_at
         /\ Rows[j].cols.status = LitActive
         /\ Rows[j].updated_at = Rows[j].created_at

(***************************************************************************)
(* C20  The connection protocol of get_connection.                         *)
(***************************************************************************)
\* the method in progress holds a connection it has not put back
HoldsConnection ==
    \/ dbop.stage = "body"
    \/ dbop.stage = "exit" /\ \E i \in DOMAIN dbop.todo : dbop.todo[i] = "putconn"

\* the pool is made at most once, before the first connection is taken;
\* a connection is out exactly while a method holds it, so each is put back
\* once, and none is out between methods
C20_Pool ==
    /\ connection_pool.inits <= 1
    /\ connection_pool.out > 0 => connection_pool.inits = 1
    /\ connection_pool.out = IF HoldsConnection THEN 1 ELSE 0
    /\ dbop.stage = "idle" => connection_pool.out = 0

\* a connection whose block failed with a database error is rolled back
\* before it is put back
C20_PutStep ==
    (connection_pool'.out < connection_pool.out /\ dbop.kind = "dberror")
        => dbop.rolled_back

\* C20: the pool is initialised lazily at most once before the first
\* acquisition; every connection obtained with getconn is returned with
\* putconn exactly once when the block exits, normally or by any exception;
\* after a database error rollback is issued on the connection before it is
\* returned; after any sequence of operations no connection is checked out.
C20_ConnectionProtocol == []C20_Pool /\ [][C20_PutStep]_vars

\* a block has failed with a database error and its connection has been
\* rolled back and put back into the pool made on first use
C20_Witness ==
    /\ dbop.stage = "exit"
    /\ dbop.kind = "dberror"
    /\ dbop.rolled_back
    /\ dbop.todo = <<>>
    /\ connection_pool.out = 0
    /\ connection_pool.inits = 1
    /\ database.now > 1

(***************************************************************************)
(* The query wrappers of the parser (lines 357-379).                       *)
(***************************************************************************)
\* the DatabaseManager method a wrapper calls (lines 364, 376)
ManagerMethod(name) ==
    IF name = "get_member_eligibility" THEN "get_eligibility_by_member_id"
    ELSE "update_eligibility_status"

\* what a wrapper returns when it has nothing from the manager (lines 361,
\* 367, 373, 379): None, False
WrapperDefault(name) ==
    IF name = "get_member_eligibility" THEN <<>> ELSE <<FALSE>>

\* a wrapper whose handler catches psycopg2.Error only
WrapperOutcomeDbErrorsOnly(name, res) ==
    IF res.kind = "return" THEN [kind |-> "return", value |-> res.value]
    ELSE IF res.exc = "psycopg2.Error"
    THEN [kind |-> "return", value |-> WrapperDefault(name)]
    ELSE [kind |-> "raise", value |-> <<>>]

\* lines 363-367, 375-379: the manager's value, or the default after any
\* exception
WrapperOutcome(name, res) ==
    IF res.kind = "return" THEN [kind |-> "return", value |-> res.value]
    ELSE [kind |-> "return", value |-> WrapperDefault(name)]

\* a wrapper is entered: without a manager it returns at once (lines 359-361,
\* 371-373), with one it calls the manager's method
WrapEnter(name, args) ==
    IF db_manager
    THEN /\ Begin(ManagerMethod(name), args)
         /\ wrapper' = [IdleWrapper EXCEPT
                !.name = name, !.args = args, !.stage = "calling",
                !.manager_calls =
                    <<[name |-> ManagerMethod(name), args |-> args]>>]
    ELSE /\ dbop' = dbop
         /\ wrapper' = [IdleWrapper EXCEPT
                !.name = name, !.args = args, !.stage = "done",
                !.kind = "return", !.value = WrapperDefault(name)]

\* the manager's method has ended and the wrapper returns
WrapLeave ==
    /\ wrapper.stage = "calling"
    /\ dbop.stage = "idle"
    /\ wrapper' = [wrapper EXCEPT
           !.stage = "done",
           !.kind = WrapperOutcome(wrapper.name, dbres).kind,
           !.value = WrapperOutcome(wrapper.name, dbres).value]

\* parser.get_member_eligibility(member_id) or
\* parser.update_member_status(record_id, status) is called
WrapCall(name, args) ==
    /\ Quiet
    /\ WrapEnter(name, args)
    /\ UNCHANGED <<data, pc, segments, idx, exc, calls, clock, returned,
                   db_manager, connection_pool, database, dbres, file, cli>>

WrapReturn ==
    /\ WrapLeave
    /\ UNCHANGED <<data, pc, segments, idx, exc, calls, clock, returned,
                   db_manager, connection_pool, database, dbop, dbres, file,
                   cli>>

(***************************************************************************)
(* SpecWrap: parsers with and without a manager; the wrappers are called   *)
(* while a client of the manager inserts records and closes the pool.      *)
(***************************************************************************)
NextWrap ==
    \/ \E manager \in BOOLEAN : NewParserWith(manager)
    \/ \E m \in {LitM1, LitM2} : WrapCall("get_member_eligibility", <<m>>)
    \/ \E id \in 1..2, status \in {LitInactive} :
           WrapCall("update_member_status", <<id, status>>)
    \/ WrapReturn
    \/ Call("insert_eligibility_response", <<DbRecord(LitM1, Empty)>>)
    \/ DbEnter
    \/ DbBody
    \/ DbRollback
    \/ DbPutConn
    \/ DbReturn
    \/ ClosePool

SpecWrap == Init /\ [][NextWrap]_vars

(***************************************************************************)
(* C17  The wrappers never raise.                                          *)
(***************************************************************************)
\* a wrapper returns or raises in this step
WrapperEnds == wrapper' # wrapper /\ wrapper'.stage = "done"

C17_WrapperStep ==
    WrapperEnds =>
        /\ wrapper'.kind = "return"
        /\ IF ~db_manager
           THEN /\ wrapper'.value = WrapperDefault(wrapper'.name)
                /\ wrapper'.manager_calls = <<>>
                /\ dbop' = dbop
           ELSE /\ wrapper'.manager_calls =
                       <<[name |-> ManagerMethod(wrapper'.name),
                          args |-> wrapper'.args]>>
                /\ dbres.kind = "raise" =>
                       wrapper'.value = WrapperDefault(wrapper'.name)
                /\ dbres.kind = "return" => wrapper'.value = dbres.value

\* C17: the parser's query wrappers never raise: get_member_eligibility
\* returns None and update_member_status returns False both when no database
\* manager is configured and when the manager's operation raises any
\* exception; with a working manager they return exactly the manager's
\* result and call it once with the same arguments.
C17_WrappersNeverRaise == [][C17_WrapperStep]_vars

\* update_member_status has returned False after the manager's method
\* raised an exception that is no database error
C17_Witness ==
    /\ wrapper.stage = "done"
    /\ wrapper.name = "update_member_status"
    /\ wrapper.manager_calls # <<>>
    /\ dbres.kind = "raise" /\ dbres.exc = "Exception"
    /\ wrapper.kind = "return" /\ wrapper.value = <<FALSE>>

(***************************************************************************)
(* parse_file (lines 230-242).                                             *)
(***************************************************************************)
\* lines 231-233: the file is opened and read and parse_content is called on
\* its stripped text; found holds the text of the file and is empty when
\* there is no such file, and open raises FileNotFoundError
ParseFileEnter(found, save_to_db) ==
    /\ calls < MaxCalls
    /\ (save_to_db /\ db_manager /\ found # <<>>) =>
           (database.now < MaxOps /\ Len(database.rows) < MaxRows)
    /\ IF found = <<>>
       THEN /\ file' = [IdleFile EXCEPT !.stage = "done", !.kind = "raise",
                                        !.save_to_db = save_to_db]
            /\ UNCHANGED <<segments, idx, pc, exc, calls>>
       ELSE /\ file' = [IdleFile EXCEPT !.stage = "parsing",
                                        !.save_to_db = save_to_db]
            /\ segments' = SplitSegments(Strip(found[1]))
            /\ idx' = 0
            /\ pc' = "parsing"
            /\ exc' = "none"
            /\ calls' = calls + 1

\* line 233: an exception of parse_content leaves parse_file
ParseFileRaise ==
    /\ file.stage = "parsing"
    /\ pc = "raised"
    /\ file' = [file EXCEPT !.stage = "done", !.kind = "raise"]

\* lines 235-237: with save_to_db and a manager, the record is inserted;
\* otherwise line 242 returns it
ParseFileSave ==
    /\ file.stage = "parsing"
    /\ pc = "returned"
    /\ IF file.save_to_db /\ db_manager
       THEN /\ Begin("insert_eligibility_response", <<data>>)
            /\ file' = [file EXCEPT !.stage = "saving", !.inserts = @ + 1]
       ELSE /\ dbop' = dbop
            /\ file' = [file EXCEPT !.stage = "done", !.kind = "return"]

\* lines 238-242: the insert has returned or raised; either is logged, and
\* the record is returned
ParseFileLeave ==
    /\ file.stage = "saving"
    /\ dbop.stage = "idle"
    /\ file' = [file EXCEPT !.stage = "done", !.kind = "return",
                            !.insert_failed = (dbres.kind = "raise")]

\* parser.parse_file(file_path, save_to_db) is called
ParseFile(found, save_to_db) ==
    /\ Quiet
    /\ ParseFileEnter(found, save_to_db)
    /\ UNCHANGED <<data, clock, returned, db_manager, connection_pool,
                   database, dbop, dbres, wrapper, cli>>

\* the steps of parse_file after parse_content
FileRaise ==
    /\ ParseFileRaise
    /\ UNCHANGED <<data, pc, segments, idx, exc, calls, clock, returned,
                   db_manager, connection_pool, database, dbop, dbres,
                   wrapper, cli>>

FileSave ==
    /\ ParseFileSave
    /\ UNCHANGED <<data, pc, segments, idx, exc, calls, clock, returned,
                   db_manager, connection_pool, database, dbres, wrapper,
                   cli>>

FileReturn ==
    /\ ParseFileLeave
    /\ UNCHANGED <<data, pc, segments, idx, exc, calls, clock, returned,
                   db_manager, connection_pool, database, dbop, dbres,
                   wrapper, cli>>

(***************************************************************************)
(* SpecFile: parsers with and without a manager read files: files that do  *)
(* not exist, and files of member ids, response dates the database takes   *)
(* or refuses, and an amount float() refuses.                              *)
(***************************************************************************)
\* NM1*IL*1*ROE*JANE****MI*M1
SubscriberM1 ==
    Seg(<<LitNM1, LitIL, <<"1">>, <<"R", "O", "E">>, <<"J", "A", "N", "E">>,
          <<>>, <<>>, <<>>, <<"M", "I">>, LitM1>>)

\* BHT*0022*11*REF*20240115 and BHT*0022*11*REF*ABCDEFGH
FileSegments ==
    {SubscriberM1,
     BHTSeg(<<"2", "0", "2", "4", "0", "1", "1", "5">>),
     BHTSeg(<<"A", "B", "C", "D", "E", "F", "G", "H">>),
     Deduct7}

\* what is at a file path: nothing, or a text
Files == {<<>>} \cup {<<content>> : content \in ContentsOf(FileSegments)}

NextFile ==
    \/ \E manager \in BOOLEAN : NewParserWith(manager)
    \/ \E found \in Files, save_to_db \in BOOLEAN :
           ParseFile(found, save_to_db)
    \/ Step
    \/ Return
    \/ FileRaise
    \/ FileSave
    \/ FileReturn
    \/ DbEnter
    \/ DbBody
    \/ DbRollback
    \/ DbPutConn
    \/ DbReturn

SpecFile == Init /\ [][NextFile]_vars

(***************************************************************************)
(* C18  parse_file and a failing insert.                                   *)
(***************************************************************************)
\* C18: in parse_file with save_to_db=True and a database manager
\* configured, the insert is attempted exactly once (never retried), and a
\* failure of that insert propagates to parse_file's caller as a reported
\* failure rather than the call completing as if the record had been saved.
C18_InsertFailurePropagates ==
    /\ file.stage = "saving" => file.inserts = 1
    /\ (file.stage = "done" /\ file.inserts > 0) =>
           /\ file.inserts = 1
           /\ file.insert_failed => file.kind = "raise"

(***************************************************************************)
(* main (lines 453-553) and create_db_manager_from_args (lines 426-451).   *)
(*                                                                         *)
(* args holds what argparse gives: input_file is "none" when the argument  *)
(* is absent, "missing" when it names no file and "found" when it names a  *)
(* file of text content; get_member and update_status are empty when the   *)
(* option is absent.  rc is the value main returns: <<0>>, <<1>>, or empty *)
(* for None, when control falls off the end of the try block (line 542).   *)
(* Line 553 calls main() and drops that value.                             *)
(***************************************************************************)
\* the run asks for one of the two query operations (lines 489, 503)
IsQuery(args) == args.get_member # <<>> \/ args.update_status # <<>>

\* main() starts: lines 428-445 decide whether there is a manager, and with
\* --create-schema the schema is created first; line 486 constructs the
\* parser, whose record is built here
MainStart(args, available) ==
    /\ Quiet
    /\ clock < MaxClock
    /\ clock' = clock + 1
    /\ data' = EligibilityResponse(clock + 1)
    /\ pc' = "ready"
    /\ segments' = <<>>
    /\ idx' = 0
    /\ exc' = "none"
    /\ calls' = 0
    /\ returned' = FALSE
    /\ dbres' = NoResult
    /\ wrapper' = IdleWrapper
    /\ file' = IdleFile
    /\ connection_pool' = NoPool
    /\ db_manager' = (args.db_host /\ available)
    /\ IF args.db_host /\ available /\ args.create_schema
       THEN /\ Begin("create_schema", <<>>)
            /\ cli' = [IdleCli EXCEPT !.stage = "schema", !.args = args]
       ELSE /\ dbop' = dbop
            /\ cli' = [IdleCli EXCEPT !.stage = "dispatch", !.args = args]
    /\ UNCHANGED database

\* lines 446-451: create_schema has returned, or raised: then there is no
\* manager
MainSchema ==
    /\ cli.stage = "schema"
    /\ dbop.stage = "idle"
    /\ db_manager' = (dbres.kind = "return")
    /\ cli' = [cli EXCEPT !.stage = "dispatch"]
    /\ UNCHANGED <<data, pc, segments, idx, exc, calls, clock, returned,
                   connection_pool, database, dbop, dbres, wrapper, file>>

\* lines 489-494, 503-509: a query operation; without a manager main
\* returns 1, with one it calls the wrapper
MainQuery ==
    /\ cli.stage = "dispatch"
    /\ IsQuery(cli.args)
    /\ IF ~db_manager
       THEN /\ cli' = [cli EXCEPT !.stage = "finally", !.rc = <<1>>]
            /\ UNCHANGED <<dbop, wrapper>>
       ELSE /\ IF cli.args.get_member # <<>>
               THEN WrapEnter("get_member_eligibility", cli.args.get_member)
               ELSE WrapEnter("update_member_status", cli.args.update_status)
            /\ cli' = [cli EXCEPT !.stage = "query"]
    /\ UNCHANGED <<data, pc, segments, idx, exc, calls, clock, returned,
                   db_manager, connection_pool, database, dbres, file>>

\* lines 495-501, 510-514: the wrapper has returned; whatever it returned,
\* main prints a message and returns 0
MainAfterQuery ==
    /\ cli.stage = "query"
    /\ wrapper.stage = "done"
    /\ cli' = [cli EXCEPT
           !.stage = "finally", !.rc = <<0>>,
           !.failed = \/ dbres.kind = "raise"
                      \/ /\ wrapper.name = "update_member_status"
                         /\ wrapper.value = <<FALSE>>]
    /\ UNCHANGED <<data, pc, segments, idx, exc, calls, clock, returned,
                   db_manager, connection_pool, database, dbop, dbres,
                   wrapper, file>>

\* lines 517-520: no query and no input file
MainNoInput ==
    /\ cli.stage = "dispatch"
    /\ ~IsQuery(cli.args)
    /\ cli.args.input_file = "none"
    /\ cli' = [cli EXCEPT !.stage = "finally", !.rc = <<1>>]
    /\ UNCHANGED <<data, pc, segments, idx, exc, calls, clock, returned,
                   db_manager, connection_pool, database, dbop, dbres,
                   wrapper, file>>

\* line 523: parse_file(args.input_file, save_to_db=args.save_to_db)
MainParse ==
    /\ cli.stage = "dispatch"
    /\ ~IsQuery(cli.args)
    /\ cli.args.input_file # "none"
    /\ ParseFileEnter(IF cli.args.input_file = "found"
                      THEN <<cli.args.content>> ELSE <<>>,
                      cli.args.save_to_db)
    /\ cli' = [cli EXCEPT !.stage = "parse"]
    /\ UNCHANGED <<data, clock, returned, db_manager, connection_pool,
                   database, dbop, dbres, wrapper>>

\* lines 525-546: parse_file has returned and control falls off the end of
\* the try block, or it has raised and the handler returns 1
MainAfterParse ==
    /\ cli.stage = "parse"
    /\ file.stage = "done"
    /\ cli' = [cli EXCEPT
           !.stage = "finally",
           !.rc = IF file.kind = "raise" THEN <<1>> ELSE <<>>,
           !.failed = file.kind = "raise" \/ file.insert_failed]
    /\ UNCHANGED <<data, pc, segments, idx, exc, calls, clock, returned,
                   db_manager, connection_pool, database, dbop, dbres,
                   wrapper, file>>

\* lines 547-550: the finally clause closes the pool of the manager, if
\* there is a manager and it has a pool
MainFinally ==
    /\ cli.stage = "finally"
    /\ connection_pool' =
           IF db_manager /\ connection_pool.state = "open"
           THEN [connection_pool EXCEPT !.state = "closed"]
           ELSE connection_pool
    /\ cli' = [cli EXCEPT !.stage = "done"]
    /\ UNCHANGED <<data, pc, segments, idx, exc, calls, clock, returned,
                   db_manager, database, dbop, dbres, wrapper, file>>

(***************************************************************************)
(* SpecMain: the command is run with every combination of its arguments,   *)
(* with and without psycopg2, on an empty table and on a table that holds  *)
(* a record.                                                               *)
(***************************************************************************)
InitMain ==
    /\ clock = 1
    /\ data = EligibilityResponse(1)
    /\ pc = "ready"
    /\ segments = <<>>
    /\ idx = 0
    /\ exc = "none"
    /\ calls = 0
    /\ returned = FALSE
    /\ db_manager = FALSE
    /\ connection_pool = NoPool
    /\ database \in {EmptyDatabase, StoredDatabase}
    /\ dbop = IdleOp
    /\ dbres = NoResult
    /\ wrapper = IdleWrapper
    /\ file = IdleFile
    /\ cli = IdleCli

\* the input file argument: absent, a path without a file, a file of a
\* member id, a file with an amount float() refuses
InputFiles ==
    {[input_file |-> "none", content |-> Empty],
     [input_file |-> "missing", content |-> Empty],
     [input_file |-> "found", content |-> MakeContent(<<SubscriberM1>>)],
     [input_file |-> "found", content |-> MakeContent(<<Deduct7>>)]}

ArgsPool ==
    {[input_file |-> f.input_file, content |-> f.content,
      db_host |-> h, create_schema |-> c, save_to_db |-> s,
      get_member |-> g, update_status |-> u] :
        f \in InputFiles, h \in BOOLEAN, c \in BOOLEAN, s \in BOOLEAN,
        g \in {<<>>, <<LitM1>>},
        u \in {<<>>, <<1, LitInactive>>, <<2, LitInactive>>}}

NextMain ==
    \/ \E args \in ArgsPool, available \in BOOLEAN :
           MainStart(args, available)
    \/ MainSchema
    \/ MainQuery
    \/ MainAfterQuery
    \/ MainNoInput
    \/ MainParse
    \/ MainAfterParse
    \/ MainFinally
    \/ WrapReturn
    \/ Step
    \/ Return
    \/ FileRaise
    \/ FileSave
    \/ FileReturn
    \/ DbEnter
    \/ DbBody
    \/ DbRollback
    \/ DbPutConn
    \/ DbReturn

SpecMain == InitMain /\ [][NextMain]_vars

(***************************************************************************)
(* C19  The exit outcome of the command.                                   *)
(***************************************************************************)
\* C19: the command's exit outcome is non-zero when the input file argument
\* is missing for a parse, when --get-member or --update-status is requested
\* without a usable database manager, and on any unhandled failure (file not
\* found, persistence unreachable); it is zero only when the requested
\* operation succeeded.
C19_ExitOutcome ==
    cli.stage = "done" =>
        /\ (~IsQuery(cli.args) /\ cli.args.input_file = "none") =>
               cli.rc = <<1>>
        /\ (IsQuery(cli.args) /\ ~db_manager) => cli.rc = <<1>>
        /\ cli.failed => cli.rc = <<1>>
        /\ cli.rc # <<1>> => ~cli.failed

====
